---- MODULE Spec2Model ----
(***************************************************************************)
(* ArgusDB: one collection of the LSM storage engine (src/src/db.rs), its  *)
(* memtable, its on-disk segments (src/src/jstable.rs) and its operation   *)
(* log (src/src/log.rs).                                                   *)
(*                                                                         *)
(* Ids are modelled as integers ordered like the id strings; documents are *)
(* abstract values, Null is the JSON null that serves as the tombstone.    *)
(* Option<Value> is a sequence: None is <<>> and Some(v) is <<v>>.         *)
(***************************************************************************)
EXTENDS Integers, Sequences, FiniteSets, TLC

\* ---------------------------------------------------------------- bounds
\* number of ids Uuid::now_v7 hands out in one behaviour
MaxInserts == 3
\* number of update and delete calls in one behaviour
MaxMods == 1
\* number of insert, update and delete calls together
MaxOps == 4
\* largest memtable_threshold tried
MaxMemThreshold == 2
\* largest jstable_threshold tried
MaxJsThreshold == 3
\* the log rotation threshold tried when logging is enabled (in size units)
SmallLogThreshold == 1
\* latest wall-clock reading
MaxClock == 1
\* number of close-and-reopen cycles in one behaviour
MaxReopens == 1
\* number of create_collection, drop_collection, failing and read calls on the DB
MaxDbCalls == 3
\* number of sources a MergedIterator is built from, and of ids they draw from
MaxSources == 2
MaxKeys == 2

\* ---------------------------------------------------------------- values
Null == "null"
\* the documents insert and update are called with
InsertValues == {"a", Null}
UpdateValues == {"b", Null}
\* an id that insert never generates, for update/delete of unknown ids
ForeignId == MaxInserts + 1

None == <<>>
Some(v) == <<v>>

\* ---------------------------------------------------------------- names
\* a name is a sequence of characters; a character is written as a string, the
\* character U+20AC as "euro"
Euro == "euro"
AsciiAlphanumeric == {"0", "2", "5", "a", "c", "d", "f", "u"}
\* c as u32
CharCode(c) ==
  CASE c = " " -> 32
    [] c = "/" -> 47
    [] c = "_" -> 95
    [] c = Euro -> 8364
    [] c = "0" -> 48
    [] c = "2" -> 50
    [] c = "5" -> 53
    [] c = "a" -> 97
    [] c = "c" -> 99
    [] c = "d" -> 100
    [] c = "f" -> 102
    [] c = "u" -> 117

HexDigit(n) ==
  <<"0", "1", "2", "3", "4", "5", "6", "7", "8", "9", "a", "b", "c", "d", "e", "f">>[n + 1]

\* {:x}: the lowercase hexadecimal digits of n
RECURSIVE LowerHex(_)
LowerHex(n) ==
  IF n < 16 THEN <<HexDigit(n)>> ELSE Append(LowerHex(n \div 16), HexDigit(n % 16))

\* {:02x}: padded with zeros to a width of at least two
LowerHex02(n) == IF n < 16 THEN <<"0">> \o LowerHex(n) ELSE LowerHex(n)

\* variant: the name is used as the directory name as it is
sanitize_filename_raw(name) == name

RECURSIVE sanitize_filename(_)
sanitize_filename(name) ==
  IF name = <<>> THEN <<>>
  ELSE LET c == Head(name)
       IN  (IF c \in AsciiAlphanumeric THEN <<c>> ELSE <<"_">> \o LowerHex02(CharCode(c)))
             \o sanitize_filename(Tail(name))

\* the collection whose memtable, segments and log are modelled in full
Primary == <<"c">>
PrimaryDir == sanitize_filename(Primary)
\* the names create_collection is called with
CreateNames == {Primary, <<"u", "/", "d">>, <<Euro>>}
\* the names any call can use: those, and the names of their directories
Names == CreateNames \cup {sanitize_filename(n) : n \in CreateNames}

Min(S) == CHOOSE x \in S : \A y \in S : x <= y
Max(S) == CHOOSE x \in S : \A y \in S : x >= y

EmptyMap == [x \in {} |-> Null]
MapPut(m, k, v) == [x \in (DOMAIN m) \cup {k} |-> IF x = k THEN v ELSE m[x]]

\* BTreeMap iteration: entries in ascending key order
RECURSIVE BTreeIter(_)
BTreeIter(m) ==
  IF DOMAIN m = {} THEN <<>>
  ELSE LET k == Min(DOMAIN m)
       IN  <<<<k, m[k]>>>> \o BTreeIter([x \in (DOMAIN m) \ {k} |-> m[x]])

\* BTreeMap built by inserting the records of a sequence in order
RECURSIVE BTreeFrom(_)
BTreeFrom(recs) ==
  IF recs = <<>> THEN EmptyMap
  ELSE LET n == Len(recs)
       IN  MapPut(BTreeFrom(SubSeq(recs, 1, n - 1)), recs[n][1], recs[n][2])

\* ---------------------------------------------------------------- memtable
MemTable_new == EmptyMap
MemTable_insert(mt, id, doc) == MapPut(mt, id, doc)
MemTable_update(mt, id, doc) == MapPut(mt, id, doc)
MemTable_delete(mt, id) == MapPut(mt, id, Null)
MemTable_len(mt) == Cardinality(DOMAIN mt)
\* the JSTable a memtable flush hands to JSTable::write
MemTable_flush(mt, ts, collection) ==
  [timestamp |-> ts, collection |-> collection, documents |-> mt]

\* ---------------------------------------------------------------- segments
\* the 8-bit fingerprint of a key in the BinaryFuse8 filter, scaled down:
\* distinct ids may share a fingerprint (false positive), equal ids never differ
Fingerprint(id) == id % 3
BinaryFuse8(keys) == {Fingerprint(k) : k \in keys}
Filter_contains(filter, id) == Fingerprint(id) \in filter

\* variant: the records are written in descending id order
JSTable_write_descending(table) ==
  [timestamp |-> table.timestamp,
   collection |-> table.collection,
   filter    |-> BinaryFuse8(DOMAIN table.documents),
   data      |-> LET asc == BTreeIter(table.documents)
                 IN  [i \in 1..Len(asc) |-> asc[Len(asc) + 1 - i]]]

\* the files jstable-K.summary (timestamp, filter) and jstable-K.data (records)
JSTable_write(table) ==
  [timestamp |-> table.timestamp,
   collection |-> table.collection,
   filter    |-> BinaryFuse8(DOMAIN table.documents),
   data      |-> BTreeIter(table.documents)]

read_filter(file) == file.filter
JSTableIterator(file) == file.data
read_jstable(file) ==
  [timestamp |-> file.timestamp, collection |-> file.collection,
   documents |-> BTreeFrom(JSTableIterator(file))]

\* sort_by_key(|t| t.timestamp) is a stable sort: position of table i in the
\* sorted order is the number of tables that come before it
SortedByTimestamp(tables) ==
  LET n == Len(tables)
      rank(i) == Cardinality({j \in 1..n :
                     \/ tables[j].timestamp < tables[i].timestamp
                     \/ (tables[j].timestamp = tables[i].timestamp /\ j < i)})
  IN  [p \in 1..n |-> tables[CHOOSE i \in 1..n : rank(i) = p - 1]]

RECURSIVE InsertAll(_, _)
InsertAll(docs, tables) ==
  IF tables = <<>> THEN docs
  ELSE LET t == Head(tables)
           merged == [x \in (DOMAIN docs) \cup (DOMAIN t.documents) |->
                        IF x \in DOMAIN t.documents THEN t.documents[x] ELSE docs[x]]
       IN  InsertAll(merged, Tail(tables))

RetainNonNull(docs) ==
  [x \in {k \in DOMAIN docs : docs[k] # Null} |-> docs[x]]

\* variant: the tables are taken in slice order, not sorted by timestamp
merge_jstables_unsorted(tbls) ==
  [timestamp |-> Max({0} \cup {tbls[i].timestamp : i \in 1..Len(tbls)}),
   collection |-> IF tbls = <<>> THEN <<>> ELSE tbls[1].collection,
   documents |-> RetainNonNull(InsertAll(EmptyMap, tbls))]

\* variant: the tombstones are kept in the merged table
merge_jstables_keepNull(tables) ==
  LET sorted_tables == SortedByTimestamp(tables)
      max_timestamp == Max({0} \cup {tables[i].timestamp : i \in 1..Len(tables)})
  IN  [timestamp |-> max_timestamp,
       collection |-> IF tables = <<>> THEN <<>> ELSE tables[1].collection,
       documents |-> InsertAll(EmptyMap, sorted_tables)]

merge_jstables(tables) ==
  LET sorted_tables == SortedByTimestamp(tables)
      max_timestamp == Max({0} \cup {tables[i].timestamp : i \in 1..Len(tables)})
  IN  [timestamp |-> max_timestamp,
       collection |-> IF tables = <<>> THEN <<>> ELSE tables[1].collection,
       documents |-> RetainNonNull(InsertAll(EmptyMap, sorted_tables))]

\* ---------------------------------------------------------------- merged iterator
\* variant: the last matching source wins instead of the first
RECURSIVE MergedIterator_lastWins(_)
MergedIterator_lastWins(sources) ==
  LET live == {i \in 1..Len(sources) : sources[i] # <<>>}
  IN  IF live = {} THEN <<>>
      ELSE LET min_id  == Min({sources[i][1][1] : i \in live})
               matches == {i \in live : sources[i][1][1] = min_id}
               result  == sources[Max(matches)][1][2]
               rest    == [i \in 1..Len(sources) |->
                             IF i \in matches THEN Tail(sources[i]) ELSE sources[i]]
           IN  IF result # Null
               THEN <<<<min_id, result>>>> \o MergedIterator_lastWins(rest)
               ELSE MergedIterator_lastWins(rest)

RECURSIVE MergedIterator(_)
MergedIterator(sources) ==
  LET live == {i \in 1..Len(sources) : sources[i] # <<>>}
  IN  IF live = {} THEN <<>>
      ELSE LET min_id  == Min({sources[i][1][1] : i \in live})
               matches == {i \in live : sources[i][1][1] = min_id}
               result  == sources[Min(matches)][1][2]
               rest    == [i \in 1..Len(sources) |->
                             IF i \in matches THEN Tail(sources[i]) ELSE sources[i]]
           IN  IF result # Null
               THEN <<<<min_id, result>>>> \o MergedIterator(rest)
               ELSE MergedIterator(rest)

\* the ids at the front of the sources that have entries left
PeekedIds(srcs) == {srcs[i][1][1] : i \in {j \in 1..Len(srcs) : srcs[j] # <<>>}}

\* variant: only the source that supplies the value is advanced
RECURSIVE MergedIterator_next_keepShadowed(_)
MergedIterator_next_keepShadowed(srcs) ==
  IF PeekedIds(srcs) = {} THEN [item |-> None, sources |-> srcs]
  ELSE LET min_id  == Min(PeekedIds(srcs))
           matches == {i \in 1..Len(srcs) : srcs[i] # <<>> /\ srcs[i][1][1] = min_id}
           result  == srcs[Min(matches)][1][2]
           rest    == [i \in 1..Len(srcs) |->
                         IF i = Min(matches) THEN Tail(srcs[i]) ELSE srcs[i]]
       IN  IF result # Null
           THEN [item |-> Some(<<min_id, result>>), sources |-> rest]
           ELSE MergedIterator_next_keepShadowed(rest)

\* one call of next(): the item it returns and what it leaves in the sources
RECURSIVE MergedIterator_next(_)
MergedIterator_next(srcs) ==
  IF PeekedIds(srcs) = {} THEN [item |-> None, sources |-> srcs]
  ELSE LET min_id  == Min(PeekedIds(srcs))
           matches == {i \in 1..Len(srcs) : srcs[i] # <<>> /\ srcs[i][1][1] = min_id}
           result  == srcs[Min(matches)][1][2]
           rest    == [i \in 1..Len(srcs) |->
                         IF i \in matches THEN Tail(srcs[i]) ELSE srcs[i]]
       IN  IF result # Null
           THEN [item |-> Some(<<min_id, result>>), sources |-> rest]
           ELSE MergedIterator_next(rest)

\* ---------------------------------------------------------------- logger
EntrySize(op) == IF op.kind = "Delete" THEN 1 ELSE 2

RECURSIVE FileSize(_)
FileSize(entries) ==
  IF entries = <<>> THEN 0 ELSE EntrySize(Head(entries)) + FileSize(Tail(entries))

\* a logger is the file argus.log, the rotated file argus.log.1 and the byte counter
NoFiles == [file |-> <<>>, rotated |-> <<>>, current_size |-> 0]
Logger_new(l) == [file |-> l.file, rotated |-> l.rotated, current_size |-> FileSize(l.file)]
\* variant: the current file is truncated, the rotated file is not replaced
Logger_rotate_truncate(l) == [file |-> <<>>, rotated |-> l.rotated, current_size |-> 0]

\* rotate: argus.log is renamed to argus.log.1 and a fresh argus.log is opened
Logger_rotate(l) == [file |-> <<>>, rotated |-> l.file, current_size |-> 0]

\* variant: rotation already when the size has reached the threshold
Logger_log_ge(l, threshold, op) ==
  LET l1 == IF l.current_size >= threshold THEN Logger_rotate(l) ELSE l
  IN  [file         |-> Append(l1.file, op),
       rotated      |-> l1.rotated,
       current_size |-> l1.current_size + EntrySize(op)]

\* log: rotate first when the size exceeds the threshold, then append and flush
Logger_log(l, threshold, op) ==
  LET l1 == IF l.current_size > threshold THEN Logger_rotate(l) ELSE l
  IN  [file         |-> Append(l1.file, op),
       rotated      |-> l1.rotated,
       current_size |-> l1.current_size + EntrySize(op)]

\* ---------------------------------------------------------------- state
VARIABLES
  memtable_threshold,     \* Collection.memtable_threshold
  jstable_threshold,      \* Collection.jstable_threshold
  log_rotation_threshold, \* DB.log_rotation_threshold: Option<u64>
  memtable,               \* Collection.memtable.documents
  jstable_count,          \* Collection.jstable_count
  filters,                \* Collection.filters
  disk,                   \* the segment files of the collection directory, by K
  logger,                 \* Collection.logger and its files
  clock,                  \* the wall clock read by a flush
  nextId,                 \* the next id Uuid::now_v7 returns
  pc,                     \* position inside Collection::insert, update or delete
  doc,                    \* the document argument of the call in progress
  target,                 \* the id the call in progress writes
  merged_table,           \* local of Collection::compact
  latest,                 \* history: id -> value of the most recent write
  pristine,               \* history: ids inserted and never updated or deleted
  lastOp,                 \* history: the operation that returned last
  call,                   \* history: observations of the insert in progress, and what get and scan returned before its flush
  sinceFlush,             \* history: operations applied since the last flush
  preScan,                \* history: what scan returned before the last close
  onlyInserts,            \* history: no update or delete was called so far
  nMods,                  \* history: number of update and delete calls
  nReopens,               \* history: number of reopens
  collections,            \* DB.collections: name -> Collection.dir
  dirs,                   \* the directories under DB.root_dir
  dbCall,                 \* history: the last create, drop, read or failed call and its result
  nDbCalls,               \* history: number of such calls
  sources,                \* MergedIterator.sources: what each source has left
  given,                  \* history: the sources the MergedIterator was built from
  tables,                 \* the slice of tables handed to merge_jstables
  segment,                \* one segment on its own: the table, its two files, what was read back
  query,                  \* one query plan being executed: its operators' fields and what it returned
  yielded                 \* history: the items next() has returned so far

config == <<memtable_threshold, jstable_threshold, log_rotation_threshold>>
store  == <<memtable, jstable_count, filters, disk, logger>>
locals == <<pc, doc, target, merged_table>>
hist   == <<latest, pristine, lastOp, call, sinceFlush, preScan, onlyInserts, nMods, nReopens>>
dbase  == <<collections, dirs, dbCall, nDbCalls>>
iter   == <<sources, given, yielded, tables, segment, query>>
beyond == <<dbase, iter>>
vars   == <<config, store, clock, nextId, locals, hist, beyond>>

Logging == log_rotation_threshold # None

\* variant: the entry stays in the write buffer and never reaches the file
Log_log_unflushed(l, op) == l

\* Box<dyn Log>: Logger when a rotation threshold is configured, NullLogger otherwise
Log_log(l, op) == IF Logging THEN Logger_log(l, log_rotation_threshold[1], op) ELSE l
Log_rotate(l) == IF Logging THEN Logger_rotate(l) ELSE l

\* ---------------------------------------------------------------- reads
\* Collection::scan: memtable first, then the segments newest to oldest
RECURSIVE SegmentSources(_)
SegmentSources(n) ==
  IF n = 0 THEN <<>>
  ELSE IF (n - 1) \in DOMAIN disk
       THEN <<JSTableIterator(disk[n - 1])>> \o SegmentSources(n - 1)
       ELSE SegmentSources(n - 1)

ScanSources == <<BTreeIter(memtable)>> \o SegmentSources(jstable_count)

scan == MergedIterator(ScanSources)

\* the first record of a segment with the given id
FindRecord(data, id) ==
  LET hits == {i \in 1..Len(data) : data[i][1] = id}
  IN  IF hits = {} THEN <<>> ELSE <<data[Min(hits)][2]>>

\* variant: a tombstone does not end the search, older segments are still tried
RECURSIVE GetFromSegments_skipTombstone(_, _)
GetFromSegments_skipTombstone(id, i) ==
  IF i < 0 THEN None
  ELSE IF /\ i + 1 <= Len(filters)
          /\ Filter_contains(filters[i + 1], id)
          /\ i \in DOMAIN disk
          /\ FindRecord(JSTableIterator(disk[i]), id) \notin {<<>>, <<Null>>}
       THEN Some(FindRecord(JSTableIterator(disk[i]), id)[1])
       ELSE GetFromSegments_skipTombstone(id, i - 1)

RECURSIVE GetFromSegments(_, _)
GetFromSegments(id, i) ==
  IF i < 0 THEN None
  ELSE IF /\ i + 1 <= Len(filters)
          /\ Filter_contains(filters[i + 1], id)
          /\ i \in DOMAIN disk
          /\ FindRecord(JSTableIterator(disk[i]), id) # <<>>
       THEN LET d == FindRecord(JSTableIterator(disk[i]), id)[1]
            IN  IF d = Null THEN None ELSE Some(d)
       ELSE GetFromSegments(id, i - 1)

\* variant: the segments are consulted before the memtable
get_segmentsFirst(id) ==
  IF GetFromSegments(id, jstable_count - 1) # None
  THEN GetFromSegments(id, jstable_count - 1)
  ELSE IF id \in DOMAIN memtable /\ memtable[id] # Null THEN Some(memtable[id]) ELSE None

get(id) ==
  IF id \in DOMAIN memtable
  THEN IF memtable[id] = Null THEN None ELSE Some(memtable[id])
  ELSE GetFromSegments(id, jstable_count - 1)

\* ---------------------------------------------------------------- construction
NoCall == [preLen |-> 0, preCount |-> 0, ops |-> <<>>, flushed |-> FALSE, compacted |-> FALSE,
           scan |-> <<>>, gets |-> [id \in 1..ForeignId |-> None]]
NoOp == [kind |-> "none", id |-> ForeignId, doc |-> Null]
NoTable == [timestamp |-> 0, collection |-> <<>>, documents |-> EmptyMap]

NoSegment == [written |-> FALSE]

NoQuery == [started |-> FALSE]

NoDbCall == [op |-> "none", name |-> <<>>, result |-> "none"]

\* no collection object, no files, no call in progress, nothing observed yet
InitCollection ==
  /\ log_rotation_threshold \in {None, Some(SmallLogThreshold)}
  /\ memtable = MemTable_new
  /\ jstable_count = 0
  /\ filters = <<>>
  /\ disk = EmptyMap
  /\ logger = NoFiles
  /\ clock = 0
  /\ nextId = 1
  /\ pc = "idle"
  /\ doc = Null
  /\ target = ForeignId
  /\ merged_table = NoTable
  /\ latest = EmptyMap
  /\ pristine = {}
  /\ lastOp = NoOp
  /\ call = NoCall
  /\ sinceFlush = <<>>
  /\ preScan = <<>>
  /\ onlyInserts = TRUE
  /\ nMods = 0
  /\ nReopens = 0
  /\ dbCall = NoDbCall
  /\ nDbCalls = 0

\* DB::new on an empty root directory followed by create_collection(Primary)
Init ==
  /\ memtable_threshold \in 1..MaxMemThreshold
  /\ jstable_threshold \in 1..MaxJsThreshold
  /\ InitCollection
  /\ collections = [n \in {Primary} |-> PrimaryDir]
  /\ dirs = {PrimaryDir}
  /\ sources = <<>>
  /\ given = <<>>
  /\ yielded = <<>>
  /\ tables = <<>>
  /\ segment = NoSegment
  /\ query = NoQuery

\* the insert, update and delete calls made so far
OpsDone == (nextId - 1) + nMods

\* ---------------------------------------------------------------- Collection::insert
\* variant: strict comparison
NeedsFlush_gt == MemTable_len(memtable) > memtable_threshold

\* db.rs:140 the memtable is flushed first when it has reached the threshold
NeedsFlush == MemTable_len(memtable) >= memtable_threshold

\* variant: strict comparison
NeedsCompaction_gt == jstable_count > jstable_threshold

\* db.rs:187 compaction runs when the segment count meets the threshold
NeedsCompaction == jstable_count >= jstable_threshold

\* entry of insert(d): decide whether to flush
InsertCall(d) ==
  /\ pc = "idle"
  /\ Primary \in DOMAIN collections
  /\ nextId <= MaxInserts
  /\ OpsDone < MaxOps
  /\ doc' = d
  /\ pc' = IF NeedsFlush THEN "flush_write" ELSE "insert_log"
  /\ call' = [preLen |-> MemTable_len(memtable), preCount |-> jstable_count,
              ops |-> IF NeedsFlush THEN sinceFlush ELSE <<>>,
              flushed |-> FALSE, compacted |-> FALSE,
              scan |-> IF NeedsFlush THEN scan ELSE <<>>,
              gets |-> [id \in 1..ForeignId |-> IF NeedsFlush THEN get(id) ELSE None]]
  /\ UNCHANGED <<config, beyond, store, clock, nextId, target, merged_table>>
  /\ UNCHANGED <<latest, pristine, lastOp, sinceFlush, preScan, onlyInserts, nMods, nReopens>>

\* flush: the memtable is written as segment jstable-<jstable_count>
FlushWrite ==
  /\ pc = "flush_write"
  /\ \E ts \in clock..(IF clock < MaxClock THEN clock + 1 ELSE clock) :
       /\ clock' = ts
       /\ disk' = MapPut(disk, jstable_count, JSTable_write(MemTable_flush(memtable, ts, Primary)))
  /\ pc' = "flush_swap"
  /\ UNCHANGED <<config, beyond, memtable, jstable_count, filters, logger, nextId, doc, target, merged_table, hist>>

\* variant: the filter of the new segment is not loaded
FlushSwap_noFilter ==
  /\ pc = "flush_swap"
  /\ jstable_count' = jstable_count + 1
  /\ memtable' = MemTable_new
  /\ pc' = "flush_rotate"
  /\ UNCHANGED <<config, beyond, filters, disk, logger, clock, nextId, doc, target, merged_table, hist>>

\* variant: the memtable is not replaced
FlushSwap_keepMemtable ==
  /\ pc = "flush_swap"
  /\ filters' = Append(filters, read_filter(disk[jstable_count]))
  /\ jstable_count' = jstable_count + 1
  /\ pc' = "flush_rotate"
  /\ UNCHANGED <<config, beyond, memtable, disk, logger, clock, nextId, doc, target, merged_table, hist>>

\* flush: load the new filter, count the segment, start a fresh memtable
FlushSwap ==
  /\ pc = "flush_swap"
  /\ filters' = Append(filters, read_filter(disk[jstable_count]))
  /\ jstable_count' = jstable_count + 1
  /\ memtable' = MemTable_new
  /\ pc' = "flush_rotate"
  /\ UNCHANGED <<config, beyond, disk, logger, clock, nextId, doc, target, merged_table, hist>>

\* variant: the log is left as it is
FlushRotate_keepLog ==
  /\ pc = "flush_rotate"
  /\ pc' = IF NeedsCompaction THEN "compact_merge" ELSE "insert_log"
  /\ sinceFlush' = <<>>
  /\ call' = [call EXCEPT !.flushed = TRUE]
  /\ UNCHANGED <<config, beyond, store, clock, nextId, doc, target, merged_table>>
  /\ UNCHANGED <<latest, pristine, lastOp, preScan, onlyInserts, nMods, nReopens>>

\* flush: rotate the log, then decide whether to compact
FlushRotate ==
  /\ pc = "flush_rotate"
  /\ logger' = Log_rotate(logger)
  /\ pc' = IF NeedsCompaction THEN "compact_merge" ELSE "insert_log"
  /\ sinceFlush' = <<>>
  /\ call' = [call EXCEPT !.flushed = TRUE]
  /\ UNCHANGED <<config, beyond, memtable, jstable_count, filters, disk, clock, nextId, doc, target, merged_table>>
  /\ UNCHANGED <<latest, pristine, lastOp, preScan, onlyInserts, nMods, nReopens>>

\* compact: read every segment and merge them
CompactMerge ==
  /\ pc = "compact_merge"
  /\ merged_table' = merge_jstables([p \in 1..jstable_count |-> read_jstable(disk[p - 1])])
  /\ pc' = "compact_unlink"
  /\ UNCHANGED <<config, beyond, store, clock, nextId, doc, target, hist>>

\* variant: the files of the newest segment are left in place
CompactUnlink_keepLast ==
  /\ pc = "compact_unlink"
  /\ disk' = [k \in (DOMAIN disk) \ (0..(jstable_count - 2)) |-> disk[k]]
  /\ pc' = "compact_write"
  /\ UNCHANGED <<config, beyond, memtable, jstable_count, filters, logger, clock, nextId, doc, target, merged_table, hist>>

\* compact: remove the files of every segment
CompactUnlink ==
  /\ pc = "compact_unlink"
  /\ disk' = [k \in (DOMAIN disk) \ (0..(jstable_count - 1)) |-> disk[k]]
  /\ pc' = "compact_write"
  /\ UNCHANGED <<config, beyond, memtable, jstable_count, filters, logger, clock, nextId, doc, target, merged_table, hist>>

\* compact: write the merged table as jstable-0
CompactWrite ==
  /\ pc = "compact_write"
  /\ disk' = MapPut(disk, 0, JSTable_write(merged_table))
  /\ pc' = "compact_swap"
  /\ UNCHANGED <<config, beyond, memtable, jstable_count, filters, logger, clock, nextId, doc, target, merged_table, hist>>

\* variant: the filter list is truncated instead of reloaded
CompactSwap_staleFilters ==
  /\ pc = "compact_swap"
  /\ filters' = SubSeq(filters, 1, 1)
  /\ jstable_count' = 1
  /\ merged_table' = NoTable
  /\ pc' = "insert_log"
  /\ call' = [call EXCEPT !.compacted = TRUE]
  /\ UNCHANGED <<config, beyond, memtable, disk, logger, clock, nextId, doc, target>>
  /\ UNCHANGED <<latest, pristine, lastOp, sinceFlush, preScan, onlyInserts, nMods, nReopens>>

\* compact: reset the filter list to the filter of jstable-0, one segment left
CompactSwap ==
  /\ pc = "compact_swap"
  /\ filters' = <<read_filter(disk[0])>>
  /\ jstable_count' = 1
  /\ merged_table' = NoTable
  /\ pc' = "insert_log"
  /\ call' = [call EXCEPT !.compacted = TRUE]
  /\ UNCHANGED <<config, beyond, memtable, disk, logger, clock, nextId, doc, target>>
  /\ UNCHANGED <<latest, pristine, lastOp, sinceFlush, preScan, onlyInserts, nMods, nReopens>>

\* insert: fresh id, then the Insert entry is appended to the log
InsertLog ==
  /\ pc = "insert_log"
  /\ target' = nextId
  /\ nextId' = nextId + 1
  /\ logger' = Log_log(logger, [kind |-> "Insert", id |-> nextId, doc |-> doc])
  /\ pc' = "insert_put"
  /\ UNCHANGED <<config, beyond, memtable, jstable_count, filters, disk, clock, doc, merged_table, hist>>

\* insert: the document is put into the memtable and the id is returned
Put ==
  /\ pc = "insert_put"
  /\ LET op == [kind |-> "Insert", id |-> target, doc |-> doc]
     IN  /\ memtable' = MemTable_insert(memtable, target, doc)
         /\ latest' = MapPut(latest, target, doc)
         /\ pristine' = pristine \cup {target}
         /\ lastOp' = op
         /\ sinceFlush' = Append(sinceFlush, op)
  /\ pc' = "idle"
  /\ doc' = Null
  /\ target' = ForeignId
  /\ UNCHANGED <<config, beyond, jstable_count, filters, disk, logger, clock, nextId, merged_table>>
  /\ UNCHANGED <<call, preScan, onlyInserts, nMods, nReopens>>

\* ---------------------------------------------------------------- Collection::update, delete
\* the ids a caller can name: one returned by an earlier insert, or a foreign one
KnownIds == (1..(nextId - 1)) \cup {ForeignId}

\* update: the Update entry is appended to the log
Update(id, d) ==
  /\ pc = "idle"
  /\ Primary \in DOMAIN collections
  /\ nMods < MaxMods
  /\ OpsDone < MaxOps
  /\ logger' = Log_log(logger, [kind |-> "Update", id |-> id, doc |-> d])
  /\ target' = id
  /\ doc' = d
  /\ pc' = "update_put"
  /\ nMods' = nMods + 1
  /\ UNCHANGED <<config, beyond, memtable, jstable_count, filters, disk, clock, nextId, merged_table>>
  /\ UNCHANGED <<latest, pristine, lastOp, call, sinceFlush, preScan, onlyInserts, nReopens>>

\* update: the document replaces the memtable entry of the id
UpdateApply ==
  /\ pc = "update_put"
  /\ LET op == [kind |-> "Update", id |-> target, doc |-> doc]
     IN  /\ memtable' = MemTable_update(memtable, target, doc)
         /\ latest' = MapPut(latest, target, doc)
         /\ lastOp' = op
         /\ sinceFlush' = Append(sinceFlush, op)
  /\ pristine' = pristine \ {target}
  /\ onlyInserts' = FALSE
  /\ pc' = "idle"
  /\ doc' = Null
  /\ target' = ForeignId
  /\ UNCHANGED <<config, beyond, jstable_count, filters, disk, logger, clock, nextId, merged_table>>
  /\ UNCHANGED <<call, preScan, nMods, nReopens>>

\* delete: the Delete entry is appended to the log
Delete(id) ==
  /\ pc = "idle"
  /\ Primary \in DOMAIN collections
  /\ nMods < MaxMods
  /\ OpsDone < MaxOps
  /\ logger' = Log_log(logger, [kind |-> "Delete", id |-> id, doc |-> Null])
  /\ target' = id
  /\ pc' = "delete_put"
  /\ nMods' = nMods + 1
  /\ UNCHANGED <<config, beyond, memtable, jstable_count, filters, disk, clock, nextId, doc, merged_table>>
  /\ UNCHANGED <<latest, pristine, lastOp, call, sinceFlush, preScan, onlyInserts, nReopens>>

\* delete: a tombstone replaces the memtable entry of the id
DeleteApply ==
  /\ pc = "delete_put"
  /\ LET op == [kind |-> "Delete", id |-> target, doc |-> Null]
     IN  /\ memtable' = MemTable_delete(memtable, target)
         /\ latest' = MapPut(latest, target, Null)
         /\ lastOp' = op
         /\ sinceFlush' = Append(sinceFlush, op)
  /\ pristine' = pristine \ {target}
  /\ onlyInserts' = FALSE
  /\ pc' = "idle"
  /\ target' = ForeignId
  /\ UNCHANGED <<config, beyond, jstable_count, filters, disk, logger, clock, nextId, doc, merged_table>>
  /\ UNCHANGED <<call, preScan, nMods, nReopens>>

Next ==
  \/ \E d \in InsertValues : InsertCall(d)
  \/ FlushWrite
  \/ FlushSwap
  \/ FlushRotate
  \/ CompactMerge
  \/ CompactUnlink
  \/ CompactWrite
  \/ CompactSwap
  \/ InsertLog
  \/ Put
  \/ \E id \in KnownIds, d \in UpdateValues : Update(id, d)
  \/ UpdateApply
  \/ \E id \in KnownIds : Delete(id)
  \/ DeleteApply

Spec == Init /\ [][Next]_vars

\* ---------------------------------------------------------------- DB::new on an existing directory
\* Collection::new: the number of contiguous jstable-k.summary files from k = 0
RECURSIVE CountJSTables(_, _)
CountJSTables(files, k) ==
  IF k \in DOMAIN files THEN CountJSTables(files, k + 1) ELSE k

\* DB::new: every line of argus.log is applied to the memtable in order
RECURSIVE ReplayLog(_, _)
ReplayLog(mt, lines) ==
  IF lines = <<>> THEN mt
  ELSE LET op == Head(lines)
           mt1 == CASE op.kind = "Insert" -> MemTable_insert(mt, op.id, op.doc)
                    [] op.kind = "Update" -> MemTable_update(mt, op.id, op.doc)
                    [] op.kind = "Delete" -> MemTable_delete(mt, op.id)
       IN  ReplayLog(mt1, Tail(lines))

\* DB::new: a directory is loaded under the collection name in the header of
\* its jstable-0 when it has one, under its own name otherwise
RecoveredName(d) ==
  IF d = PrimaryDir /\ 0 \in DOMAIN disk THEN disk[0].collection ELSE d

\* the database is closed between two operations and opened again on the same directory
Reopen ==
  /\ pc = "idle"
  /\ nReopens < MaxReopens
  /\ LET n == CountJSTables(disk, 0)
     IN  /\ jstable_count' = n
         /\ filters' = [p \in 1..n |-> read_filter(disk[p - 1])]
  /\ logger' = IF Logging THEN Logger_new(logger) ELSE logger
  /\ memtable' = IF Logging THEN ReplayLog(MemTable_new, logger.file) ELSE MemTable_new
  /\ preScan' = scan
  /\ lastOp' = [kind |-> "Reopen", id |-> ForeignId, doc |-> Null]
  /\ nReopens' = nReopens + 1
  /\ collections' = [n \in {RecoveredName(d) : d \in dirs} |->
                        CHOOSE d \in dirs : RecoveredName(d) = n]
  /\ UNCHANGED <<config, dirs, dbCall, nDbCalls, iter, disk, clock, nextId, locals>>
  /\ UNCHANGED <<latest, pristine, call, sinceFlush, onlyInserts, nMods>>

NextReopen == Next \/ Reopen

SpecReopen == Init /\ [][NextReopen]_vars

\* ---------------------------------------------------------------- DB: the map of collections
show_collections == DOMAIN collections

\* the collection object and the files of the primary directory are gone
NoCollection ==
  /\ memtable' = MemTable_new
  /\ jstable_count' = 0
  /\ filters' = <<>>
  /\ disk' = EmptyMap
  /\ logger' = NoFiles
  /\ latest' = EmptyMap
  /\ pristine' = {}
  /\ lastOp' = NoOp
  /\ call' = NoCall
  /\ sinceFlush' = <<>>
  /\ preScan' = <<>>
  /\ onlyInserts' = TRUE
  /\ UNCHANGED <<nMods, nReopens>>

\* variant: an existing collection is replaced by a new one
create_collection_replace(name) ==
  /\ pc = "idle"
  /\ nDbCalls < MaxDbCalls
  /\ nDbCalls' = nDbCalls + 1
  /\ LET col_dir == sanitize_filename(name)
     IN  /\ dirs' = dirs \cup {col_dir}
         /\ collections' = MapPut(collections, name, col_dir)
         /\ dbCall' = [op |-> "create", name |-> name, result |-> "ok"]
         /\ IF col_dir = PrimaryDir
            THEN /\ memtable' = MemTable_new
                 /\ jstable_count' = 0
                 /\ filters' = <<>>
                 /\ logger' = IF Logging THEN Logger_new(logger) ELSE logger
                 /\ UNCHANGED disk
            ELSE UNCHANGED store
  /\ UNCHANGED <<config, clock, nextId, locals, hist, iter>>

\* create_collection: Collection::new on the sanitized directory, unless the name exists
create_collection(name) ==
  /\ pc = "idle"
  /\ nDbCalls < MaxDbCalls
  /\ nDbCalls' = nDbCalls + 1
  /\ IF name \in DOMAIN collections
     THEN /\ dbCall' = [op |-> "create", name |-> name, result |-> "already_exists"]
          /\ UNCHANGED <<collections, dirs, store>>
     ELSE LET col_dir == sanitize_filename(name)
              n == CountJSTables(disk, 0)
          IN  /\ dirs' = dirs \cup {col_dir}
              /\ collections' = MapPut(collections, name, col_dir)
              /\ dbCall' = [op |-> "create", name |-> name, result |-> "ok"]
              /\ IF col_dir = PrimaryDir
                 THEN /\ memtable' = MemTable_new
                      /\ jstable_count' = n
                      /\ filters' = [p \in 1..n |-> read_filter(disk[p - 1])]
                      /\ logger' = IF Logging THEN Logger_new(logger) ELSE logger
                      /\ UNCHANGED disk
                 ELSE UNCHANGED store
  /\ UNCHANGED <<config, clock, nextId, locals, hist, iter>>

\* variant: the directory is left on disk
drop_collection_keepDir(name) ==
  /\ pc = "idle"
  /\ nDbCalls < MaxDbCalls
  /\ nDbCalls' = nDbCalls + 1
  /\ IF name \in DOMAIN collections
     THEN /\ collections' = [n \in (DOMAIN collections) \ {name} |-> collections[n]]
          /\ dbCall' = [op |-> "drop", name |-> name, result |-> "ok"]
          /\ UNCHANGED <<dirs, store, hist>>
     ELSE /\ dbCall' = [op |-> "drop", name |-> name, result |-> "not_found"]
          /\ UNCHANGED <<collections, dirs, store, hist>>
  /\ UNCHANGED <<config, clock, nextId, locals, iter>>

\* drop_collection: the collection leaves the map, then its directory is removed
drop_collection(name) ==
  /\ pc = "idle"
  /\ nDbCalls < MaxDbCalls
  /\ nDbCalls' = nDbCalls + 1
  /\ IF name \in DOMAIN collections
     THEN /\ collections' = [n \in (DOMAIN collections) \ {name} |-> collections[n]]
          /\ dirs' = dirs \ {collections[name]}
          /\ dbCall' = [op |-> "drop", name |-> name,
                        result |-> IF collections[name] \in dirs THEN "ok" ELSE "io_error"]
          /\ IF collections[name] = PrimaryDir
             THEN NoCollection
             ELSE UNCHANGED <<store, hist>>
     ELSE /\ dbCall' = [op |-> "drop", name |-> name, result |-> "not_found"]
          /\ UNCHANGED <<collections, dirs, store, hist>>
  /\ UNCHANGED <<config, clock, nextId, locals, iter>>

\* the calls that look the collection up before they do anything
LookupOps == {"insert", "update", "delete", "get", "scan"}

\* get_collection, get_collection_mut: the lookup every insert, update, delete,
\* get and scan starts with; a read of an existing collection changes nothing
get_collection(op, name) ==
  /\ pc = "idle"
  /\ nDbCalls < MaxDbCalls
  /\ nDbCalls' = nDbCalls + 1
  /\ IF name \in DOMAIN collections
     THEN /\ op \in {"get", "scan"}
          /\ dbCall' = [op |-> op, name |-> name, result |-> "ok"]
     ELSE dbCall' = [op |-> op, name |-> name, result |-> "not_found"]
  /\ UNCHANGED <<config, collections, dirs, store, clock, nextId, locals, hist, iter>>

\* DB::new on an empty root directory
InitDB ==
  /\ memtable_threshold = 1
  /\ jstable_threshold = 2
  /\ InitCollection
  /\ Logging
  /\ collections = EmptyMap
  /\ dirs = {}
  /\ sources = <<>>
  /\ given = <<>>
  /\ yielded = <<>>
  /\ tables = <<>>
  /\ segment = NoSegment
  /\ query = NoQuery

\* a database whose clients create and drop collections, insert into the
\* primary one, and restart the process
NextDB ==
  \/ InsertCall("a")
  \/ FlushWrite
  \/ FlushSwap
  \/ FlushRotate
  \/ CompactMerge
  \/ CompactUnlink
  \/ CompactWrite
  \/ CompactSwap
  \/ InsertLog
  \/ Put
  \/ \E name \in CreateNames : create_collection(name)
  \/ \E name \in Names : drop_collection(name)
  \/ \E op \in LookupOps, name \in Names : get_collection(op, name)
  \/ Reopen

SpecDB == InitDB /\ [][NextDB]_vars

\* ---------------------------------------------------------------- observations
Entries(seq) == {seq[i] : i \in 1..Len(seq)}
LiveEntries == {<<id, latest[id]>> : id \in {k \in DOMAIN latest : latest[k] # Null}}
Ascending(seq) == \A i \in 1..(Len(seq) - 1) : seq[i][1] < seq[i + 1][1]
\* segment K holds a record for id whose value satisfies the test
HoldsLive(k, id) == \E r \in Entries(disk[k].data) : r[1] = id /\ r[2] # Null
HoldsTombstone(k, id) == \E r \in Entries(disk[k].data) : r[1] = id /\ r[2] = Null
Returned == pc = "idle"

C2_GetReturnsInserted ==
  Returned => \A id \in pristine : get(id) = Some(latest[id])

\* C2 amended: every non-null document inserted and never updated or deleted
\* under its id is returned by get in every later state; inserting null stores a
\* tombstone and get returns None for it.
C2_GetReturnsInsertedNonNull ==
  Returned => \A id \in pristine :
                 get(id) = IF latest[id] = Null THEN None ELSE Some(latest[id])

\* C2 witness: a pristine document that was carried through a compaction and is
\* read from the merged segment
C2_Witness ==
  /\ Returned
  /\ call.compacted
  /\ \E id \in pristine :
       /\ latest[id] # Null
       /\ id \notin DOMAIN memtable
       /\ HoldsLive(0, id)
       /\ get(id) = Some(latest[id])

C4_UpdateShadows ==
  (Returned /\ lastOp.kind = "Update") =>
     /\ get(lastOp.id) = Some(lastOp.doc)
     /\ <<lastOp.id, lastOp.doc>> \in Entries(scan)

\* C4 amended: right after update(id, V) returns with V not null, get(id) is
\* Some(V) and scan reports V for id, shadowing every segment value, also for an
\* id that was never inserted; update(id, null) is a delete: get(id) is None and
\* scan has no entry for id.
C4_UpdateShadowsNonNull ==
  (Returned /\ lastOp.kind = "Update") =>
     IF lastOp.doc # Null
     THEN /\ get(lastOp.id) = Some(lastOp.doc)
          /\ \A e \in Entries(scan) : e[1] = lastOp.id => e[2] = lastOp.doc
          /\ \E e \in Entries(scan) : e[1] = lastOp.id
     ELSE /\ get(lastOp.id) = None
          /\ \A e \in Entries(scan) : e[1] # lastOp.id

\* C4 witness: the updated id has another value in a flushed segment
C4_Witness ==
  /\ Returned
  /\ lastOp.kind = "Update"
  /\ lastOp.doc # Null
  /\ \E k \in 0..(jstable_count - 1) :
       \E r \in Entries(disk[k].data) : r[1] = lastOp.id /\ r[2] \notin {Null, lastOp.doc}

\* C5: with logging enabled, reopening rebuilds a memtable that holds exactly
\* the ids written since the last flush, each with its latest value, a deleted
\* id with a null tombstone.
C5_ReopenReplaysLog ==
  (Returned /\ lastOp.kind = "Reopen" /\ Logging) =>
     memtable = [id \in {sinceFlush[i].id : i \in 1..Len(sinceFlush)} |-> latest[id]]

\* C6: with logging enabled, after inserts and flushes only, a reopen counts the
\* contiguous segment files and scan returns every document it returned before
\* the close.
C6_ReopenPreservesContent ==
  (Returned /\ lastOp.kind = "Reopen" /\ Logging /\ onlyInserts) =>
     /\ DOMAIN disk = 0..(jstable_count - 1)
     /\ Entries(preScan) \subseteq Entries(scan)

\* C7 as stated: when flush returns the memtable is empty and the segment count
\* is one more than before the flush.
C7_FlushGrowsCountByOne ==
  (pc = "insert_log" /\ call.flushed) =>
     /\ memtable = EmptyMap
     /\ jstable_count = call.preCount + 1

\* C7 amended: when flush returns the memtable is empty and the segment count
\* is one more than before the flush, unless that count meets the compaction
\* threshold: then compaction ran inside the flush and the count is 1.
C7_FlushGrowsCountUnlessCompacted ==
  (pc = "insert_log" /\ call.flushed) =>
     /\ memtable = EmptyMap
     /\ jstable_count = IF call.preCount + 1 >= jstable_threshold
                        THEN 1 ELSE call.preCount + 1

\* C7 witness: a flush that returned with a second segment and no compaction
C7_Witness ==
  /\ pc = "insert_log"
  /\ call.flushed
  /\ ~call.compacted
  /\ call.preLen >= 1
  /\ jstable_count = 2

\* C8: when compact returns the segment count is 1, the only segment files are
\* those of jstable-0, and the surviving segment stores no null value and no id
\* whose latest value is a tombstone.
C8_CompactLeavesOneLiveSegment ==
  (pc = "insert_log" /\ call.compacted) =>
     /\ jstable_count = 1
     /\ DOMAIN disk = {0}
     /\ \A r \in Entries(disk[0].data) : r[2] # Null /\ latest[r[1]] # Null
     /\ \A id \in DOMAIN latest : latest[id] = Null => ~HoldsTombstone(0, id)

\* C8 witness: a compaction of two segments that dropped a tombstone
C8_Witness ==
  /\ pc = "insert_log"
  /\ call.compacted
  /\ call.preCount = 1
  /\ \E id \in DOMAIN latest : latest[id] = Null
  /\ disk[0].data # <<>>

\* C9: insert flushes first exactly when the memtable length at the start of
\* the call has reached memtable_threshold; the segment written holds exactly
\* the entries of the memtable (threshold-many when only inserts were used); the
\* memtable holds one entry after a flushing insert; update and delete never
\* write a segment.
C9_InsertFlushesAtThreshold ==
  [][/\ (pc = "idle" /\ pc' \in {"flush_write", "insert_log"}) =>
           (pc' = "flush_write" <=> Cardinality(DOMAIN memtable) >= memtable_threshold)
     /\ pc' = "flush_write" => pc = "idle"
     /\ pc = "flush_write" =>
           /\ Entries(disk'[jstable_count].data) = {<<k, memtable[k]>> : k \in DOMAIN memtable}
           /\ Len(disk'[jstable_count].data) = Cardinality(DOMAIN memtable)
           /\ onlyInserts => Len(disk'[jstable_count].data) = memtable_threshold
     /\ pc = "insert_put" =>
           Cardinality(DOMAIN memtable') = IF call.flushed THEN 1 ELSE call.preLen + 1
     /\ (pc \in {"idle", "update_put", "delete_put"} /\ pc' \in {"idle", "update_put", "delete_put"})
           => UNCHANGED <<disk, jstable_count, filters>>
    ]_vars

\* C9 witness: an insert that found a full memtable of two entries has returned
C9_Witness ==
  /\ Returned
  /\ lastOp.kind = "Insert"
  /\ call.flushed
  /\ call.preLen = 2
  /\ Cardinality(DOMAIN memtable) = 1

\* C10: at the end of a flush compaction runs exactly when the segment count,
\* the new segment included, has reached jstable_threshold, and nowhere else;
\* the flush that creates the threshold-th segment returns with count 1; with
\* thresholds M and J and inserts only the count is J - 1 after M * J inserts
\* and 1 after one more.
C10_CompactionAtThreshold ==
  [][/\ pc = "flush_rotate" =>
           (pc' = "compact_merge" <=> jstable_count >= jstable_threshold)
     /\ pc' = "compact_merge" => pc = "flush_rotate"
     /\ (pc = "compact_swap" /\ call.preCount + 1 = jstable_threshold) => jstable_count' = 1
     /\ (Returned' /\ onlyInserts' /\ nReopens' = 0) =>
           /\ nextId' - 1 = memtable_threshold * jstable_threshold
                 => jstable_count' = jstable_threshold - 1
           /\ nextId' - 1 = memtable_threshold * jstable_threshold + 1
                 => jstable_count' = 1
    ]_vars

\* C10 witness: inserts only, one more than M * J of them, compacted to one segment
C10_Witness ==
  /\ Returned
  /\ onlyInserts
  /\ jstable_threshold >= 2
  /\ nextId - 1 = memtable_threshold * jstable_threshold + 1
  /\ call.compacted
  /\ jstable_count = 1

\* ---------------------------------------------------------------- log ordering
IsSuffix(s, t) == Len(s) <= Len(t) /\ SubSeq(t, Len(t) - Len(s) + 1, Len(t)) = s
Last(seq) == seq[Len(seq)]
\* the value the last operation of ops on id wrote
LastWrite(ops, id) == ops[Max({i \in 1..Len(ops) : ops[i].id = id})].doc

ApplyPositions == {"insert_put", "update_put", "delete_put"}
\* the operation a call has logged and is about to apply to the memtable
PendingOp ==
  [kind |-> CASE pc = "insert_put" -> "Insert"
              [] pc = "update_put" -> "Update"
              [] OTHER -> "Delete",
   id |-> target, doc |-> doc]

\* the steps of a behaviour that call Log::log, and those that modify the memtable
LogStep == pc \notin ApplyPositions /\ pc' \in ApplyPositions
ApplyStep == pc \in ApplyPositions

\* C11 as stated: insert, update and delete append their entry to the log file
\* before they modify the memtable, the entries of the log are in the order the
\* memtable took the operations, and an operation that has returned has its
\* entry in the log file.
C11_LogThenApply ==
  [][/\ LogStep => /\ memtable' = memtable
                   /\ logger'.file # <<>>
                   /\ Last(logger'.file) = PendingOp'
     /\ ApplyStep => /\ logger' = logger
                     /\ logger.file # <<>>
                     /\ Last(logger.file) = PendingOp
                     /\ target \in DOMAIN memtable'
                     /\ memtable'[target] = doc
                     /\ lastOp' = PendingOp
     /\ (ApplyStep /\ Returned') => IsSuffix(logger'.file, sinceFlush')
    ]_vars

\* C11 amended: with a log rotation threshold configured, insert, update and
\* delete append their entry to the log file before they modify the memtable,
\* the entries of the log file are in the order the memtable took the
\* operations, and an operation that has returned has its entry in the log
\* file; without a threshold the NullLogger writes nothing.
C11_LogThenApplyWhenLogging ==
  [][/\ LogStep => /\ memtable' = memtable
                   /\ IF Logging
                      THEN logger'.file # <<>> /\ Last(logger'.file) = PendingOp'
                      ELSE logger' = logger /\ logger.file = <<>>
     /\ ApplyStep => /\ logger' = logger
                     /\ Logging => (logger.file # <<>> /\ Last(logger.file) = PendingOp)
                     /\ target \in DOMAIN memtable'
                     /\ memtable'[target] = doc
                     /\ lastOp' = PendingOp
     /\ (ApplyStep /\ Returned') => IsSuffix(logger'.file, sinceFlush')
    ]_vars

\* C11 witness: a delete and then an insert were logged and applied, both
\* entries are in the log file in that order
C11_Witness ==
  /\ Returned
  /\ Logging
  /\ Len(logger.file) >= 2
  /\ lastOp.kind = "Insert"
  /\ Last(logger.file) = lastOp
  /\ logger.file[1].kind = "Delete"
  /\ logger.file = sinceFlush

\* C12 as stated: the segment is written before the log is rotated; when flush
\* returns every operation of the flushed memtable is present in the new segment
\* jstable-N and argus.log holds no entry of the flushed memtable.
C12_SegmentThenRotate ==
  [][/\ pc = "flush_rotate" =>
           /\ (jstable_count - 1) \in DOMAIN disk
           /\ \A i \in 1..Len(call.ops) :
                 <<call.ops[i].id, LastWrite(call.ops, call.ops[i].id)>>
                    \in Entries(disk[jstable_count - 1].data)
           /\ logger'.file = <<>>
     /\ (pc' = "insert_log" /\ call'.flushed) =>
           /\ call'.preCount \in DOMAIN disk'
           /\ \A i \in 1..Len(call'.ops) :
                 <<call'.ops[i].id, LastWrite(call'.ops, call'.ops[i].id)>>
                    \in Entries(disk'[call'.preCount].data)
           /\ logger'.file = <<>>
     /\ Returned' => IsSuffix(logger'.file, sinceFlush')
    ]_vars

\* C12 amended: the segment jstable-N holds every operation of the flushed
\* memtable before the log is rotated; when flush returns argus.log is empty
\* and, unless compaction ran inside the flush, jstable-N still holds them; when
\* compaction ran, jstable-0 holds the value of every flushed id whose last
\* write is not null and no record for a flushed id whose last write is null.
\* Afterwards argus.log holds only operations applied after the flush.
C12_SegmentThenRotateUnlessCompacted ==
  [][/\ pc = "flush_rotate" =>
           /\ (jstable_count - 1) \in DOMAIN disk
           /\ \A i \in 1..Len(call.ops) :
                 <<call.ops[i].id, LastWrite(call.ops, call.ops[i].id)>>
                    \in Entries(disk[jstable_count - 1].data)
           /\ logger'.file = <<>>
     /\ (pc' = "insert_log" /\ call'.flushed) =>
           /\ logger'.file = <<>>
           /\ IF ~call'.compacted
              THEN /\ call'.preCount \in DOMAIN disk'
                   /\ \A i \in 1..Len(call'.ops) :
                         <<call'.ops[i].id, LastWrite(call'.ops, call'.ops[i].id)>>
                            \in Entries(disk'[call'.preCount].data)
              ELSE /\ DOMAIN disk' = {0}
                   /\ \A i \in 1..Len(call'.ops) :
                         LET id == call'.ops[i].id
                             v  == LastWrite(call'.ops, id)
                         IN  IF v # Null
                             THEN <<id, v>> \in Entries(disk'[0].data)
                             ELSE \A r \in Entries(disk'[0].data) : r[1] # id
     /\ Returned' => IsSuffix(logger'.file, sinceFlush')
    ]_vars

\* C12 witness: a flush of a memtable that held a tombstone has returned without
\* compaction and its log entries were rotated away
C12_Witness ==
  /\ pc = "insert_log"
  /\ call.flushed
  /\ ~call.compacted
  /\ Logging
  /\ logger.file = <<>>
  /\ logger.rotated # <<>>
  /\ \E i \in 1..Len(call.ops) : call.ops[i].doc = Null

\* C13: Logger::log rotates before appending exactly when the byte count of the
\* current log file exceeds the rotation threshold at the start of the call; the
\* entry goes to the file that is current after the check, so after a rotation
\* the rotated file holds all earlier entries and the current file only the
\* entry that triggered it; the byte counter equals the size of the current file.
C13_RotateBeforeAppend ==
  [][(LogStep /\ Logging) =>
        /\ IF FileSize(logger.file) > log_rotation_threshold[1]
           THEN /\ logger'.rotated = logger.file
                /\ logger'.file = <<PendingOp'>>
           ELSE /\ logger'.rotated = logger.rotated
                /\ logger'.file = Append(logger.file, PendingOp')
        /\ logger'.current_size = FileSize(logger'.file)
    ]_vars

\* C13 witness: a log call has rotated the file by itself: the entries of the
\* memtable are in the rotated file, the current file holds the new entry alone
C13_Witness ==
  /\ pc \in ApplyPositions
  /\ Logging
  /\ sinceFlush # <<>>
  /\ logger.rotated = sinceFlush
  /\ logger.file = <<PendingOp>>

\* C14: when rotate returns the current log file is empty, the byte counter is
\* 0 and the rotated file holds exactly the entries the current file held
\* before the call, in place of what it held before; no entry of the current
\* file is lost by the rotation.
C14_RotateKeepsEntries ==
  [][/\ (pc = "flush_rotate" /\ Logging) =>
           /\ logger'.rotated = logger.file
           /\ logger'.file = <<>>
           /\ logger'.current_size = 0
     /\ (LogStep /\ Logging /\ Len(logger'.file) <= Len(logger.file)) =>
           /\ logger'.rotated = logger.file
           /\ logger'.file = <<PendingOp'>>
           /\ logger'.current_size = EntrySize(PendingOp')
    ]_vars

\* C14 witness: a rotation at the end of a flush replaced an earlier rotated file
C14_Witness ==
  /\ pc \in {"insert_log", "compact_merge"}
  /\ call.flushed
  /\ Logging
  /\ call.preCount >= 1
  /\ logger.rotated # <<>>
  /\ logger.rotated = call.ops
  /\ logger.file = <<>>

\* ---------------------------------------------------------------- the map of collections
\* the steps that are a create, drop, read or failed call, and the restarts
DbStep == nDbCalls' = nDbCalls + 1
ReopenStep == nReopens' = nReopens + 1
\* a step that enters Collection::insert
InsertStep == pc = "idle" /\ pc' \in {"flush_write", "insert_log"}

\* C15: create_collection on an existing name returns already-exists and leaves
\* the collection (memtable, segments, log, directory) unchanged; drop, insert,
\* update, delete, get and scan on a name that is not in the database return
\* not-found, change no state and create no directory.
C15_ErrorsChangeNothing ==
  [][/\ (DbStep /\ dbCall'.op = "create" /\ dbCall'.name \in DOMAIN collections) =>
           /\ dbCall'.result = "already_exists"
           /\ UNCHANGED <<collections, dirs, store>>
     /\ (DbStep /\ dbCall'.op # "create" /\ dbCall'.name \notin DOMAIN collections) =>
           /\ dbCall'.result = "not_found"
           /\ UNCHANGED <<collections, dirs, store>>
     /\ (DbStep /\ dbCall'.result \in {"already_exists", "not_found"}) =>
           UNCHANGED <<collections, dirs, store>>
     /\ InsertStep => Primary \in DOMAIN collections
    ]_vars

\* C15 witness: create_collection was refused for a collection that holds a
\* segment, a memtable entry and a log entry, and they are still there
C15_Witness ==
  /\ dbCall = [op |-> "create", name |-> Primary, result |-> "already_exists"]
  /\ Primary \in show_collections
  /\ jstable_count >= 1
  /\ 0 \in DOMAIN disk
  /\ memtable # MemTable_new
  /\ logger.file # <<>>

\* C16: a successful drop_collection removes the directory with its segments
\* and log and takes the name out of show_collections; afterwards calls on the
\* name return not-found and nothing recreates the collection or its directory
\* except create_collection; a restart loads only directories that exist; a
\* later create_collection of the name gives an empty collection.
C16_DropRemovesCollection ==
  [][/\ (DbStep /\ dbCall'.op = "drop" /\ dbCall'.result = "ok") =>
           /\ dbCall'.name \notin show_collections'
           /\ collections[dbCall'.name] \notin dirs'
           /\ collections[dbCall'.name] = PrimaryDir =>
                 (disk' = EmptyMap /\ logger' = NoFiles /\ jstable_count' = 0)
     /\ (DbStep /\ dbCall'.op \in LookupOps) =>
           (dbCall'.result = "not_found" <=> dbCall'.name \notin show_collections)
     /\ InsertStep => Primary \in show_collections
     /\ \A n \in show_collections' \ show_collections :
           \/ DbStep /\ dbCall' = [op |-> "create", name |-> n, result |-> "ok"]
           \/ ReopenStep /\ n \in dirs
     /\ \A d \in dirs' \ dirs :
           DbStep /\ dbCall'.op = "create" /\ dbCall'.result = "ok"
                  /\ d = collections'[dbCall'.name]
     /\ PrimaryDir \notin dirs => (disk = EmptyMap /\ logger = NoFiles /\ memtable = MemTable_new)
     /\ (DbStep /\ dbCall' = [op |-> "create", name |-> Primary, result |-> "ok"]) =>
           /\ memtable' = MemTable_new
           /\ jstable_count' = 0
           /\ filters' = <<>>
           /\ disk' = EmptyMap
           /\ logger'.file = <<>>
           /\ scan' = <<>>
    ]_vars

\* C16 witness: the primary collection was created, filled until it had a
\* segment, dropped and created again: it is empty
C16_Witness ==
  /\ dbCall = [op |-> "create", name |-> Primary, result |-> "ok"]
  /\ nDbCalls >= 3
  /\ nextId >= 3
  /\ Primary \in show_collections
  /\ memtable = MemTable_new
  /\ disk = EmptyMap

\* the positions of a name that hold a character sanitize_filename replaces
Escaped(name) == {i \in 1..Len(name) : name[i] \notin AsciiAlphanumeric}

HexDigitValue(h) == CHOOSE n \in 0..15 : HexDigit(n) = h
RECURSIVE HexValue(_)
HexValue(hex) ==
  IF hex = <<>> THEN 0
  ELSE 16 * HexValue(SubSeq(hex, 1, Len(hex) - 1)) + HexDigitValue(hex[Len(hex)])

\* the directory name is the name with every replaced character written as an
\* underscore followed by exactly digits[c] lowercase hexadecimal digits of its code
RECURSIVE IsEscapedName(_, _, _)
IsEscapedName(dir, name, digits) ==
  IF name = <<>> THEN dir = <<>>
  ELSE LET c == Head(name)
       IN  IF c \in AsciiAlphanumeric
           THEN dir # <<>> /\ Head(dir) = c /\ IsEscapedName(Tail(dir), Tail(name), digits)
           ELSE /\ Len(dir) >= 1 + digits[c]
                /\ Head(dir) = "_"
                /\ HexValue(SubSeq(dir, 2, 1 + digits[c])) = CharCode(c)
                /\ IsEscapedName(SubSeq(dir, 2 + digits[c], Len(dir)), Tail(name), digits)

TwoDigits == [c \in {"/", "_", Euro} |-> 2]
\* two digits, more when the code of the character needs more
DigitsOfCode ==
  [c \in {"/", "_", Euro} |->
     IF CharCode(c) < 256 THEN 2 ELSE IF CharCode(c) < 4096 THEN 3 ELSE 4]

SourceValues == {"a", "b", Null}
\* the sources a caller can pass: each yields ids in strictly ascending order
AscendingSources ==
  {BTreeIter(f) : f \in UNION {[S -> SourceValues] : S \in SUBSET (1..MaxKeys)}}

\* a MergedIterator over one to MaxSources sources, nothing else going on
InitMerge ==
  /\ memtable_threshold = 1
  /\ jstable_threshold = 1
  /\ InitCollection
  /\ ~Logging
  /\ collections = EmptyMap
  /\ dirs = {}
  /\ given \in UNION {[1..n -> AscendingSources] : n \in 1..MaxSources}
  /\ sources = given
  /\ yielded = <<>>
  /\ tables = <<>>
  /\ segment = NoSegment
  /\ query = NoQuery

\* a call of next() that returns an item
NextSome ==
  /\ MergedIterator_next(sources).item # None
  /\ yielded' = Append(yielded, MergedIterator_next(sources).item[1])
  /\ sources' = MergedIterator_next(sources).sources
  /\ UNCHANGED <<config, store, clock, nextId, locals, hist, dbase, given, tables, segment, query>>

\* a call of next() that finds only tombstones and returns None
NextNone ==
  /\ MergedIterator_next(sources).item = None
  /\ sources' = MergedIterator_next(sources).sources
  /\ UNCHANGED <<config, store, clock, nextId, locals, hist, dbase, given, yielded, tables, segment, query>>

NextMerge == NextSome \/ NextNone

SpecMerge == InitMerge /\ [][NextMerge]_vars

\* ---------------------------------------------------------------- readers and flushes
FlushPositions ==
  {"flush_write", "flush_swap", "flush_rotate",
   "compact_merge", "compact_unlink", "compact_write", "compact_swap"}
\* variant: the compaction that flush calls is not counted as part of the flush
FlushInFlight_writeOnly == pc \in {"flush_write", "flush_swap", "flush_rotate"}

\* Collection::flush, with the compaction it may call, has started and not returned
FlushInFlight == pc \in FlushPositions

\* variant: a reader is not kept out while a writing call runs
ScanEnabled_anytime == TRUE

\* DB::scan borrows the DB shared, every writing call borrows it exclusively:
\* a scan runs only between two writing calls
ScanEnabled == pc = "idle"

\* what a torn view would look like: a live document that scan does not return,
\* a counted segment without its files, or a filter list of another length
Torn ==
  \/ \E id \in DOMAIN latest : latest[id] # Null /\ <<id, latest[id]>> \notin Entries(scan)
  \/ \E k \in 0..(jstable_count - 1) : k \notin DOMAIN disk
  \/ Len(filters) # jstable_count
  \/ ~Ascending(scan)

QueuedFlushes == IF FlushInFlight THEN 1 ELSE 0

\* wait_for_flush returns when no flush is queued
wait_for_flush_returns == QueuedFlushes = 0

FirstValue(srcs, id) ==
  LET holders == {i \in 1..Len(srcs) : \E r \in Entries(srcs[i]) : r[1] = id}
      first   == Min(holders)
  IN  (CHOOSE r \in Entries(srcs[first]) : r[1] = id)[2]
IdsOf(srcs) == UNION {{r[1] : r \in Entries(srcs[i])} : i \in 1..Len(srcs)}

\* C20: with sources in priority order, each strictly ascending by id, the
\* merged stream is strictly ascending (each id at most once), an id carries the
\* value of the first source that has it, every source that has the id loses
\* its entry for it, and an id whose first value is null is skipped even when a
\* later source has a value for it.
C20_MergePrefersFirstSource ==
  /\ Ascending(yielded)
  /\ \A e \in Entries(yielded) :
        /\ e[1] \in IdsOf(given)
        /\ e[2] = FirstValue(given, e[1])
        /\ e[2] # Null
  /\ yielded # <<>> =>
        /\ \A id \in IdsOf(given) :
              (id <= Last(yielded)[1] /\ FirstValue(given, id) # Null)
                 => <<id, FirstValue(given, id)>> \in Entries(yielded)
        /\ \A i \in 1..Len(given) :
              \/ Entries(sources[i]) = {r \in Entries(given[i]) : r[1] > Last(yielded)[1]}
              \/ IdsOf(sources) = {}
  /\ (\A i \in 1..Len(sources) : sources[i] = <<>>) =>
        /\ {e[1] : e \in Entries(yielded)}
              = {id \in IdsOf(given) : FirstValue(given, id) # Null}
        /\ yielded = MergedIterator(given)

\* C20 witness: the first source holds a tombstone for an id the second source
\* has a value for, both hold another id with different values; the merged
\* stream has the first source's value for that one and nothing for the other
C20_Witness ==
  /\ Len(given) = 2
  /\ \A i \in 1..2 : sources[i] = <<>>
  /\ \E x, y \in 1..MaxKeys :
        /\ x # y
        /\ <<x, Null>> \in Entries(given[1])
        /\ \E r \in Entries(given[2]) : r[1] = x /\ r[2] # Null
        /\ <<y, "a">> \in Entries(given[1])
        /\ <<y, "b">> \in Entries(given[2])
        /\ yielded = <<<<y, "a">>>>

\* ---------------------------------------------------------------- compaction on disk
CompactPositions == {"compact_merge", "compact_unlink", "compact_write", "compact_swap"}

\* C21: at every step of compact() each document of the collection is present
\* in a complete segment on disk: the merged segment is written before the old
\* segment files are unlinked.
C21_CompactKeepsDocumentsOnDisk ==
  pc \in CompactPositions =>
     \A id \in DOMAIN latest :
        (latest[id] # Null /\ id \notin DOMAIN memtable) =>
           \E k \in DOMAIN disk : HoldsLive(k, id)

\* ---------------------------------------------------------------- merge_jstables on its own
\* number of tables in the slice
MaxTables == 2
\* the ids and the timestamps the tables draw from
TableKeys == {1, 2}
TableStamps == {1, 2}
TableSet ==
  {[timestamp |-> ts, collection |-> Primary, documents |-> d] :
      ts \in TableStamps,
      d \in UNION {[S -> SourceValues] : S \in SUBSET TableKeys}}

\* a slice of one to MaxTables tables, nothing else going on
InitTables ==
  /\ memtable_threshold = 1
  /\ jstable_threshold = 1
  /\ InitCollection
  /\ ~Logging
  /\ collections = EmptyMap
  /\ dirs = {}
  /\ sources = <<>>
  /\ given = <<>>
  /\ yielded = <<>>
  /\ segment = NoSegment
  /\ query = NoQuery
  /\ tables \in UNION {[1..n -> TableSet] : n \in 1..MaxTables}

\* the call merge_jstables(&tables)
MergeTables ==
  /\ pc = "idle"
  /\ tables # <<>>
  /\ merged_table' = merge_jstables(tables)
  /\ pc' = "merged"
  /\ UNCHANGED <<config, store, clock, nextId, doc, target, hist, beyond>>

SpecTables == InitTables /\ [][MergeTables]_vars

\* the orders the slice can be given in
Perms(n) == {f \in [1..n -> 1..n] : \A i, j \in 1..n : f[i] = f[j] => i = j}
Permuted(tbls, f) == [i \in 1..Len(tbls) |-> tbls[f[i]]]
\* the tables that contain id, and those of them with the greatest timestamp
Holders(tbls, id) == {i \in 1..Len(tbls) : id \in DOMAIN tbls[i].documents}
Newest(tbls, id) ==
  {i \in Holders(tbls, id) :
      \A j \in Holders(tbls, id) : tbls[j].timestamp <= tbls[i].timestamp}
TableIds(tbls) == UNION {DOMAIN tbls[i].documents : i \in 1..Len(tbls)}
\* the merged table has value v for id, a null v meaning no entry
MergedHas(t, id, v) ==
  IF v = Null THEN id \notin DOMAIN t.documents
  ELSE id \in DOMAIN t.documents /\ t.documents[id] = v

\* C22 as stated: for every id of any input table the merged table has the
\* value of the table with the greatest timestamp among those containing the
\* id, whatever the order of the slice; a null winner is removed; the merged
\* timestamp is the greatest input timestamp.
C22_MergeByTimestamp ==
  pc = "merged" =>
    /\ DOMAIN merged_table.documents \subseteq TableIds(tables)
    /\ \A id \in TableIds(tables) : \A i \in Newest(tables, id) :
          MergedHas(merged_table, id, tables[i].documents[id])
    /\ \A f \in Perms(Len(tables)) :
          merge_jstables(Permuted(tables, f)).documents = merged_table.documents
    /\ merged_table.timestamp = Max({tables[i].timestamp : i \in 1..Len(tables)})

\* C22 amended: the winner is the table with the greatest timestamp among those
\* containing the id, and among several with that timestamp the one latest in
\* the slice; the result does not depend on the order of the slice when the
\* timestamps are pairwise distinct.
C22_MergeByTimestampThenPosition ==
  pc = "merged" =>
    /\ DOMAIN merged_table.documents \subseteq TableIds(tables)
    /\ \A id \in TableIds(tables) :
          MergedHas(merged_table, id, tables[Max(Newest(tables, id))].documents[id])
    /\ (\A i, j \in 1..Len(tables) : tables[i].timestamp = tables[j].timestamp => i = j) =>
          \A f \in Perms(Len(tables)) :
             merge_jstables(Permuted(tables, f)).documents = merged_table.documents
    /\ merged_table.timestamp = Max({tables[i].timestamp : i \in 1..Len(tables)})

\* C22 witness: the older table comes last in the slice; its value for one id
\* loses against the newer table's, and the newer table's tombstone removes
\* another id the older table has a value for
C22_Witness ==
  /\ pc = "merged"
  /\ Len(tables) = 2
  /\ tables[1].timestamp > tables[2].timestamp
  /\ tables[1].documents = (1 :> "b") @@ (2 :> Null)
  /\ tables[2].documents = (1 :> "a") @@ (2 :> "a")
  /\ merged_table.documents = (1 :> "b")

\* ---------------------------------------------------------------- inserts, flushes and reopening
\* a collection that is only inserted into, and closed and opened again
NextOpen ==
  \/ \E d \in InsertValues : InsertCall(d)
  \/ FlushWrite
  \/ FlushSwap
  \/ FlushRotate
  \/ CompactMerge
  \/ CompactUnlink
  \/ CompactWrite
  \/ CompactSwap
  \/ InsertLog
  \/ Put
  \/ Reopen

SpecOpen == Init /\ [][NextOpen]_vars

\* the ids stored in segment K
SegmentIds(k) == {r[1] : r \in Entries(disk[k].data)}

\* C23: whenever no operation is in progress the segment files of the
\* directory are exactly those of jstable-0 .. jstable-(N-1), N being the
\* segment count, without gaps or extra files; and a segment file is only ever
\* written under a number higher than that of every other segment present, so
\* a higher number denotes a later write.
C23_DenseSegmentNumbers ==
  /\ [](Returned => DOMAIN disk = 0..(jstable_count - 1))
  /\ [][\A k \in DOMAIN disk' :
           (k \notin DOMAIN disk \/ disk'[k] # disk[k]) =>
              \A j \in (DOMAIN disk') \ {k} : j < k]_vars

\* C23 witness: two segments were merged into jstable-0 and the collection was
\* opened again on that single segment
C23_Witness ==
  /\ Returned
  /\ lastOp.kind = "Reopen"
  /\ call.compacted
  /\ call.preCount >= 1
  /\ jstable_count = 1
  /\ DOMAIN disk = {0}
  /\ Cardinality(SegmentIds(0)) >= 2

\* C24: whenever no operation is in progress the filter list has one filter
\* per segment and the filter at position i is the one built over the key set
\* of jstable-i, so every id stored in jstable-i tests as possibly present and
\* get reaches the record; after open, after every flush and compaction.
C24_OneFilterPerSegment ==
  Returned =>
    /\ Len(filters) = jstable_count
    /\ \A k \in 0..(jstable_count - 1) :
          /\ k \in DOMAIN disk
          /\ filters[k + 1] = BinaryFuse8(SegmentIds(k))
          /\ \A id \in SegmentIds(k) :
                /\ Filter_contains(filters[k + 1], id)
                /\ (id \notin DOMAIN memtable
                      /\ \A j \in (k + 1)..(jstable_count - 1) : id \notin SegmentIds(j))
                   => get(id) = (IF HoldsLive(k, id) THEN Some(latest[id]) ELSE None)

\* C24 witness: a collection opened again on two segments with different
\* filters, the older one holding a live document
C24_Witness ==
  /\ Returned
  /\ lastOp.kind = "Reopen"
  /\ jstable_count = 2
  /\ filters[1] # filters[2]
  /\ \E id \in SegmentIds(0) : HoldsLive(0, id) /\ get(id) = Some(latest[id])

MaxRecords == 3
\* the index thresholds a segment is written with
IndexThresholds == {0, 7, 14}

\* the bytes of the u32 length in front of every blob
PrefixLen == 4
\* record_bytes.len(): the encoded (id, doc) pair, scaled down
ValueLen(d) == CASE d = Null -> 1 [] d = "a" -> 2 [] d = "b" -> 3
RecordLen(rec) == 1 + ValueLen(rec[2])
\* the bytes write_all puts into .data for a record
FileBytes(rec) == PrefixLen + RecordLen(rec)

\* variant: the length prefix is left out of the offset accounting
Written_noPrefix(rec) == RecordLen(rec)

\* let written = 4 + record_bytes.len()
Written(rec) == 4 + RecordLen(rec)

\* variant: strict comparison with the threshold
NeedsIndexEntry_gt(first, bytes_since_last_index, index_threshold) ==
  first \/ bytes_since_last_index > index_threshold

NeedsIndexEntry(first, bytes_since_last_index, index_threshold) ==
  first \/ bytes_since_last_index >= index_threshold

\* the loop over the documents: the index and the final offset
RECURSIVE WriteLoop(_, _, _, _, _, _, _)
WriteLoop(recs, i, index, current_offset, bytes_since_last_index, first, index_threshold) ==
  IF i > Len(recs) THEN [index |-> index, current_offset |-> current_offset]
  ELSE LET take == NeedsIndexEntry(first, bytes_since_last_index, index_threshold)
       IN  WriteLoop(recs, i + 1,
                     IF take THEN Append(index, <<recs[i][1], current_offset>>) ELSE index,
                     current_offset + Written(recs[i]),
                     (IF take THEN 0 ELSE bytes_since_last_index) + Written(recs[i]),
                     first /\ ~take,
                     index_threshold)

\* the sizes of the header, filter and index blobs of .summary, scaled down
HeaderLen == 3
FilterLen(keys) == 1 + Cardinality(keys)
IndexLen(index) == 1 + 2 * Len(index)
\* where the three blobs of .summary end
HeaderEnd == PrefixLen + HeaderLen
FilterEnd(keys) == HeaderEnd + PrefixLen + FilterLen(keys)
IndexEnd(keys, index) == FilterEnd(keys) + PrefixLen + IndexLen(index)

RECURSIVE SumBytes(_, _)
SumBytes(recs, n) == IF n = 0 THEN 0 ELSE SumBytes(recs, n - 1) + FileBytes(recs[n])

\* JSTable::write(path, index_threshold): what is in the two files afterwards
JSTable_write_files(table, index_threshold) ==
  LET recs == BTreeIter(table.documents)
      loop == WriteLoop(recs, 1, <<>>, 0, 0, TRUE, index_threshold)
  IN  [written   |-> TRUE,
       table     |-> table,
       index_threshold |-> index_threshold,
       timestamp |-> table.timestamp,
       collection |-> table.collection,
       keys      |-> DOMAIN table.documents,
       index     |-> loop.index,
       records   |-> recs,
       data_len  |-> SumBytes(recs, Len(recs)),
       summary_len |-> IndexEnd(DOMAIN table.documents, loop.index),
       truncated |-> FALSE,
       read      |-> FALSE]

\* the byte at which record i of the .data file starts
RecordStart(f, i) == SumBytes(f.records, i - 1)

\* JSTableLazyIterator::next with the reader at byte pos
NextAt(f, pos) ==
  IF f.data_len - pos < PrefixLen
  THEN [kind |-> "None"]
  ELSE LET starts == {i \in 1..Len(f.records) : RecordStart(f, i) = pos}
       IN  IF starts = {} THEN [kind |-> "Err"]
           ELSE LET i == CHOOSE j \in starts : TRUE
                IN  IF f.data_len - pos - PrefixLen < RecordLen(f.records[i])
                    THEN [kind |-> "Err"]
                    ELSE [kind |-> "Ok", item |-> f.records[i],
                          pos |-> pos + PrefixLen + RecordLen(f.records[i])]

\* for result in iterator: the items up to the end or to the first error
RECURSIVE Iterate(_, _)
Iterate(f, pos) ==
  LET n == NextAt(f, pos)
  IN  CASE n.kind = "None" -> [items |-> <<>>, err |-> FALSE]
        [] n.kind = "Err"  -> [items |-> <<>>, err |-> TRUE]
        [] n.kind = "Ok"   -> LET rest == Iterate(f, n.pos)
                              IN  [items |-> <<n.item>> \o rest.items, err |-> rest.err]

Err == <<"Err">>
Ok(v) == <<"Ok", v>>

\* read_jstable: the header of .summary, then every record of .data
read_jstable_files(f) ==
  IF f.summary_len < HeaderEnd THEN Err
  ELSE IF Iterate(f, 0).err THEN Err
  ELSE Ok([timestamp |-> f.timestamp, collection |-> f.collection,
           documents |-> BTreeFrom(Iterate(f, 0).items)])

\* read_filter: the header is skipped, the filter blob is read
read_filter_files(f) ==
  IF f.summary_len < FilterEnd(f.keys) THEN Err ELSE Ok(BinaryFuse8(f.keys))

\* read_index: header and filter are skipped, the index blob is read
read_index_files(f) ==
  IF f.summary_len < IndexEnd(f.keys, f.index) THEN Err ELSE Ok(f.index)

SegmentTables ==
  {[timestamp |-> 1, collection |-> Primary, documents |-> d] :
      d \in UNION {[S -> SourceValues] : S \in SUBSET (1..MaxRecords)}}

\* a table about to be written, nothing else going on
InitSegment ==
  /\ memtable_threshold = 1
  /\ jstable_threshold = 1
  /\ InitCollection
  /\ ~Logging
  /\ collections = EmptyMap
  /\ dirs = {}
  /\ sources = <<>>
  /\ given = <<>>
  /\ yielded = <<>>
  /\ tables = <<>>
  /\ segment \in {[written |-> FALSE, table |-> t, index_threshold |-> th] :
                     t \in SegmentTables, th \in IndexThresholds}
  /\ query = NoQuery

\* table.write(path, index_threshold)
WriteSegment ==
  /\ ~segment.written
  /\ segment' = JSTable_write_files(segment.table, segment.index_threshold)
  /\ UNCHANGED <<config, store, clock, nextId, locals, hist, dbase, sources, given, yielded, tables, query>>

\* the .data file loses its end: it is cut to n bytes
TruncateData(n) ==
  /\ segment.written /\ ~segment.truncated /\ ~segment.read
  /\ n < segment.data_len
  /\ segment' = [segment EXCEPT !.data_len = n, !.truncated = TRUE]
  /\ UNCHANGED <<config, store, clock, nextId, locals, hist, dbase, sources, given, yielded, tables, query>>

\* the .summary file loses its end (cut to 0 bytes: as good as missing)
TruncateSummary(n) ==
  /\ segment.written /\ ~segment.truncated /\ ~segment.read
  /\ n < segment.summary_len
  /\ segment' = [segment EXCEPT !.summary_len = n, !.truncated = TRUE]
  /\ UNCHANGED <<config, store, clock, nextId, locals, hist, dbase, sources, given, yielded, tables, query>>

\* the segment is read back with read_jstable, read_filter, read_index and
\* with an iterator run to its end
ReadSegment ==
  /\ segment.written /\ ~segment.read
  /\ segment' = [segment EXCEPT !.read = TRUE]
  /\ UNCHANGED <<config, store, clock, nextId, locals, hist, dbase, sources, given, yielded, tables, query>>

NextSegment ==
  \/ WriteSegment
  \/ \E n \in 0..(MaxRecords * 8) : TruncateData(n)
  \/ \E n \in 0..(MaxRecords * 8) : TruncateSummary(n)
  \/ ReadSegment

SpecSegment == InitSegment /\ [][NextSegment]_vars

\* the offsets the index holds
IndexOffsets(f) == {f.index[i][2] : i \in 1..Len(f.index)}
\* the ends of the records of the file as written: where the file may end
RecordBoundaries(f) == {SumBytes(f.records, n) : n \in 0..Len(f.records)}

\* C26: for a non-empty segment written with index threshold T the first index
\* entry is (first id, 0), index ids and offsets are strictly ascending,
\* consecutive indexed offsets differ by at least T, and a record is indexed
\* exactly when it is the first one or the bytes written since the previous
\* indexed record have reached T.
C26_SparseIndex ==
  (segment.written /\ ~segment.truncated) =>
    LET f == segment
        T == f.index_threshold
    IN  /\ f.records = <<>> => f.index = <<>>
        /\ f.records # <<>> => (f.index # <<>> /\ f.index[1] = <<f.records[1][1], 0>>)
        /\ \A i \in 1..(Len(f.index) - 1) :
              /\ f.index[i][1] < f.index[i + 1][1]
              /\ f.index[i][2] < f.index[i + 1][2]
              /\ f.index[i + 1][2] - f.index[i][2] >= T
        /\ \A i \in 1..Len(f.records) :
              (\E e \in Entries(f.index) : e[1] = f.records[i][1])
                <=> \/ i = 1
                    \/ RecordStart(f, i)
                         - Max({o \in IndexOffsets(f) : o < RecordStart(f, i)}) >= T

\* C26 witness: threshold 7, three records; the second one follows a record of
\* 6 bytes and is not indexed, the third one is
C26_Witness ==
  /\ segment.written
  /\ segment.index_threshold = 7
  /\ Len(segment.records) = 3
  /\ FileBytes(segment.records[1]) = 6
  /\ Len(segment.index) = 2
  /\ segment.index[2][1] = segment.records[3][1]

\* C27: every index entry (id, offset) points at the first byte of the length
\* prefix of the record with that id: next() after seek(offset) yields it.
C27_IndexOffsetsAreRecordStarts ==
  (segment.written /\ ~segment.truncated) =>
    \A e \in Entries(segment.index) :
       /\ NextAt(segment, e[2]).kind = "Ok"
       /\ NextAt(segment, e[2]).item[1] = e[1]

\* C27 witness: a segment read back whose second index entry points past the
\* first record, and the record found there
C27_Witness ==
  /\ segment.written
  /\ segment.read
  /\ ~segment.truncated
  /\ Len(segment.index) >= 2
  /\ segment.index[2][2] > 0
  /\ NextAt(segment, segment.index[2][2]).kind = "Ok"
  /\ NextAt(segment, segment.index[2][2]).item[1] = segment.index[2][1]

\* C28: reading a segment whose .summary is cut short gives Err from each of
\* read_jstable, read_filter and read_index whose part of the file is cut, and
\* iterating a .data file that ends anywhere but at a record boundary gives an
\* error item, so that read_jstable gives Err and never a partial result.
C28_ShortReadIsError ==
  segment.written =>
    /\ segment.summary_len < HeaderEnd =>
          /\ read_jstable_files(segment) = Err
          /\ read_filter_files(segment) = Err
    /\ segment.summary_len < FilterEnd(segment.keys) =>
          read_filter_files(segment) = Err
    /\ segment.summary_len < IndexEnd(segment.keys, segment.index) =>
          read_index_files(segment) = Err
    /\ segment.data_len \notin RecordBoundaries(segment) =>
          /\ Iterate(segment, 0).err
          /\ read_jstable_files(segment) = Err

\* ---------------------------------------------------------------- unreadable segments
\* every counted segment file is there; between calls this is what the
\* collection leaves behind
Undamaged == pc = "idle" => DOMAIN disk = 0..(jstable_count - 1)

\* the environment makes the files of one counted segment unreadable between
\* two calls: JSTableIterator::new on it returns Err from then on
Damage ==
  /\ pc = "idle"
  /\ Undamaged
  /\ \E k \in DOMAIN disk :
        disk' = [j \in DOMAIN disk \ {k} |-> disk[j]]
  /\ UNCHANGED <<config, memtable, jstable_count, filters, logger, clock, nextId,
                 locals, hist, beyond>>

\* the collection's operations on intact files, and the damage; after the
\* damage only get and scan are looked at (flush and compact would go on over
\* the missing file)
NextCorrupt == (Undamaged /\ Next) \/ Damage

SpecCorrupt == Init /\ [][NextCorrupt]_vars

\* get(id) comes to segment k: the memtable and every newer segment had nothing
\* for the id, and the filter of k does not exclude it
GetReaches(id, k) ==
  /\ id \notin DOMAIN memtable
  /\ k \in 0..(jstable_count - 1)
  /\ k + 1 <= Len(filters)
  /\ Filter_contains(filters[k + 1], id)
  /\ \A j \in (k + 1)..(jstable_count - 1) :
        ~ /\ j + 1 <= Len(filters)
          /\ Filter_contains(filters[j + 1], id)
          /\ j \in DOMAIN disk
          /\ FindRecord(JSTableIterator(disk[j]), id) # <<>>

\* C29: when get has to read a segment that cannot be read, it does not skip
\* it and answer with a value from an older generation.
C29_GetNeverAnswersPastUnreadable ==
  pc = "idle" =>
    \A id \in DOMAIN latest :
      \A k \in 0..(jstable_count - 1) :
        (k \notin DOMAIN disk /\ GetReaches(id, k)) => get(id) = None

\* ---------------------------------------------------------------- query operators
MaxRows == 4      \* rows of the child stream
MaxLimit == 3     \* LIMIT n
MaxOffset == 3    \* OFFSET m

\* ScanOperator::next: the next row of the scan, None when it has no more;
\* pulls counts the calls
ScanOperator_next(q) ==
  IF q.pos < Len(q.rows)
  THEN [item |-> Some(q.rows[q.pos + 1]), q |-> [q EXCEPT !.pos = @ + 1, !.pulls = @ + 1]]
  ELSE [item |-> None, q |-> [q EXCEPT !.pulls = @ + 1]]

\* ---------------------------------------------------------------- expressions
\* a Value: its variant and, for what the comparisons look at, a number
\* (a bool as 0 or 1, a string as its rank in ascending order)
VNull == [t |-> "null", n |-> 0]
VBool(b) == [t |-> "bool", n |-> IF b THEN 1 ELSE 0]
VNumber(i) == [t |-> "number", n |-> i]
VString(i) == [t |-> "string", n |-> i]

BinaryOperator == {"Eq", "Neq", "Lt", "Lte", "Gt", "Gte"}

\* compare_values: an ordering for two numbers (both integers here: compared
\* as i64), two strings or two bools, None for anything else
compare_values(left, right) ==
  IF left.t = right.t /\ left.t \in {"number", "string", "bool"}
  THEN Some(IF left.n < right.n THEN "Less"
            ELSE IF left.n = right.n THEN "Equal" ELSE "Greater")
  ELSE None

\* evaluate_binary: Eq and Neq are == and != of the two values, the other four
\* go through compare_values and are false when it has no ordering
evaluate_binary(left, op, right) ==
  LET o == compare_values(left, right)
  IN  CASE op = "Eq"  -> VBool(left = right)
        [] op = "Neq" -> VBool(left # right)
        [] op = "Lt"  -> IF o = None THEN VBool(FALSE) ELSE VBool(o[1] = "Less")
        [] op = "Lte" -> IF o = None THEN VBool(FALSE) ELSE VBool(o[1] # "Greater")
        [] op = "Gt"  -> IF o = None THEN VBool(FALSE) ELSE VBool(o[1] = "Greater")
        [] op = "Gte" -> IF o = None THEN VBool(FALSE) ELSE VBool(o[1] # "Less")

\* a document is an object with the field "a" or without it: None or Some(value).
\* get_path for the one-part path "a"
get_path(document) == document

\* get_path_lazy and from_slice on the raw bytes of a Lazy row: the field's
\* bytes decoded, None when the field is not there
get_path_lazy(document) == document

\* evaluate_expression of FieldReference(a): the field or Null
FieldReference(document) ==
  IF get_path(document) = None THEN VNull ELSE get_path(document)[1]

\* evaluate_expression_lazy of FieldReference(a)
FieldReference_lazy(document) ==
  IF get_path_lazy(document) = None THEN VNull ELSE get_path_lazy(document)[1]

\* evaluate_expression of Binary{FieldReference(a), op, Literal(literal)}
evaluate_expression(predicate, document) ==
  evaluate_binary(FieldReference(document), predicate.op, predicate.literal)

\* evaluate_expression_lazy of the same predicate
evaluate_expression_lazy(predicate, document) ==
  evaluate_binary(FieldReference_lazy(document), predicate.op, predicate.literal)

\* FilterOperator::next, the match on the item: is the row kept
Keep(predicate, item) ==
  IF item.kind = "Value"
  THEN evaluate_expression(predicate, item.doc) = VBool(TRUE)
  ELSE evaluate_expression_lazy(predicate, item.doc) = VBool(TRUE)

\* FilterOperator::next: pulls rows from its child until one is kept
RECURSIVE FilterOperator_next(_)
FilterOperator_next(q) ==
  LET c == ScanOperator_next(q)
  IN  IF c.item = None THEN c
      ELSE IF Keep(q.predicate, c.item[1]) THEN c
      ELSE FilterOperator_next(c.q)

\* execute_plan: the child of Offset and Limit is the Filter when the plan
\* has one, the Scan otherwise
Child_next(q) == IF q.filter THEN FilterOperator_next(q) ELSE ScanOperator_next(q)

\* OffsetOperator::next: `child.next()?` ends the call with None and leaves
\* skipped as it is
RECURSIVE OffsetOperator_next(_)
OffsetOperator_next(q) ==
  IF q.skipped < q.offset[1]
  THEN LET c == Child_next(q)
       IN  IF c.item = None THEN c
           ELSE OffsetOperator_next([c.q EXCEPT !.skipped = @ + 1])
  ELSE Child_next(q)

\* convert_query wraps the plan in Offset when OFFSET is given
Input_next(q) == IF q.offset = None THEN Child_next(q) ELSE OffsetOperator_next(q)

\* variant: one row more is let through
LimitOperator_next_gt(q) ==
  IF q.count > q.limit[1] THEN [item |-> None, q |-> q]
  ELSE LET r == Input_next(q)
       IN  [item |-> r.item,
            q |-> IF r.item # None THEN [r.q EXCEPT !.count = @ + 1] ELSE r.q]

\* LimitOperator::next over its child
LimitOperator_next(q) ==
  IF q.count >= q.limit[1] THEN [item |-> None, q |-> q]
  ELSE LET r == Input_next(q)
       IN  [item |-> r.item,
            q |-> IF r.item # None THEN [r.q EXCEPT !.count = @ + 1] ELSE r.q]

\* convert_query then wraps the result in Limit when LIMIT is given: the
\* root operator of the plan
Plan_next(q) == IF q.limit = None THEN Input_next(q) ELSE LimitOperator_next(q)

\* execute_plan over a child stream of 0..MaxRows rows, with or without LIMIT
\* and OFFSET; nothing else going on
InitQuery ==
  /\ memtable_threshold = 1
  /\ jstable_threshold = 1
  /\ InitCollection
  /\ ~Logging
  /\ collections = EmptyMap
  /\ dirs = {}
  /\ sources = <<>>
  /\ given = <<>>
  /\ yielded = <<>>
  /\ tables = <<>>
  /\ segment = NoSegment
  /\ query \in {[started |-> TRUE, rows |-> [i \in 1..k |-> i], pos |-> 0, pulls |-> 0,
                 limit |-> l, count |-> 0, offset |-> o, skipped |-> 0,
                 out |-> <<>>, done |-> FALSE, filter |-> FALSE] :
                   k \in 0..MaxRows,
                   l \in {None} \cup {Some(n) : n \in 0..MaxLimit},
                   o \in {None} \cup {Some(m) : m \in 0..MaxOffset}}

\* the caller's next() on the plan returns a row
QuerySome ==
  /\ ~query.done
  /\ Plan_next(query).item # None
  /\ query' = [Plan_next(query).q EXCEPT !.out = Append(@, Plan_next(query).item[1])]
  /\ UNCHANGED <<config, store, clock, nextId, locals, hist, dbase, sources, given, yielded, tables, segment>>

\* the caller's next() on the plan returns None: the caller stops
QueryNone ==
  /\ ~query.done
  /\ Plan_next(query).item = None
  /\ query' = [Plan_next(query).q EXCEPT !.done = TRUE]
  /\ UNCHANGED <<config, store, clock, nextId, locals, hist, dbase, sources, given, yielded, tables, segment>>

NextQuery == QuerySome \/ QueryNone

SpecQuery == InitQuery /\ [][NextQuery]_vars

\* rows m .. m+n-1 of X, counted from 0 (all rows from m on without a limit)
Window(X, offset, limit) ==
  LET m == IF offset = None THEN 0 ELSE offset[1]
      last == IF limit = None THEN Len(X) ELSE Min({Len(X), m + limit[1]})
  IN  SubSeq(X, m + 1, last)

MantissaBits == 2     \* bits of the significand of a float (f64: 53)
MaxFilterRows == 2    \* rows of the scan under a Filter

\* the numbers in documents and literals: 0, the last integer every float
\* holds exactly, and the next one
Numbers == {0, 2^MantissaBits, 2^MantissaBits + 1}

FieldValues == {VNull, VBool(TRUE), VString(1), VString(2)} \cup {VNumber(i) : i \in Numbers}

\* documents without the field "a" and with it
Documents == {None} \cup {Some(v) : v \in FieldValues}

\* the rows of a scan: ExecutionResult::Value (from the memtable) or
\* ExecutionResult::Lazy (from a segment), ids ascending
ScanRows ==
  {[i \in 1..Len(ds) |-> [id |-> i, kind |-> kd, doc |-> ds[i]]] :
      kd \in {"Value", "Lazy"},
      ds \in UNION {[1..n -> Documents] : n \in 0..MaxFilterRows}}

Predicates(literals) == [op : BinaryOperator, literal : literals]

\* execute_plan of Filter(Scan) with a predicate `a op literal`; nothing else
\* going on
InitFilter ==
  /\ memtable_threshold = 1
  /\ jstable_threshold = 1
  /\ InitCollection
  /\ ~Logging
  /\ collections = EmptyMap
  /\ dirs = {}
  /\ sources = <<>>
  /\ given = <<>>
  /\ yielded = <<>>
  /\ tables = <<>>
  /\ segment = NoSegment
  /\ query \in {[started |-> TRUE, rows |-> r, pos |-> 0, pulls |-> 0,
                 limit |-> None, count |-> 0, offset |-> None, skipped |-> 0,
                 out |-> <<>>, done |-> FALSE, filter |-> TRUE, predicate |-> p] :
                   r \in ScanRows,
                   p \in Predicates(FieldValues)}

SpecFilter == InitFilter /\ [][NextQuery]_vars

\* the two operands have different types
MixedTypes(left, right) == left.t # right.t

\* C32: a comparison of operands of mixed types (a number and a string, a
\* missing field and a number) evaluates to false, with any of the six
\* operators, so the Filter drops the row.
C32_MixedComparisonIsFalse ==
  query.done =>
    \A i \in 1..Len(query.rows) :
      MixedTypes(FieldReference(query.rows[i].doc), query.predicate.literal) =>
        /\ evaluate_expression(query.predicate, query.rows[i].doc) = VBool(FALSE)
        /\ evaluate_expression_lazy(query.predicate, query.rows[i].doc) = VBool(FALSE)
        /\ query.rows[i] \notin Entries(query.out)

\* ---------------------------------------------------------------- vectorized path
BatchSize == 2    \* rows read per batch (4096 in the engine)

\* the greatest power of two that is at most i, for i >= 1
RECURSIVE Pow2Floor(_)
Pow2Floor(i) == IF i < 2 THEN 1 ELSE 2 * Pow2Floor(i \div 2)

\* `*i as f64` of get_f64_from_number: the nearest float, ties to the even
\* significand; exact up to 2^MantissaBits
ToF64(i) ==
  IF i < 2^MantissaBits THEN i
  ELSE LET step == (2 * Pow2Floor(i)) \div 2^MantissaBits
           lo == (i \div step) * step
           rem == i - lo
       IN  IF 2 * rem < step THEN lo
           ELSE IF 2 * rem > step THEN lo + step
           ELSE IF (lo \div step) % 2 = 0 THEN lo ELSE lo + step

\* evaluate_to_f64_lazy of FieldReference(a): Some(float) for a number, None
\* for a missing field and for every other value
evaluate_to_f64_lazy(document) ==
  IF get_path_lazy(document) = None THEN None
  ELSE IF get_path_lazy(document)[1].t = "number"
       THEN Some(ToF64(get_path_lazy(document)[1].n))
       ELSE None

\* evaluate_to_f64_lazy of Literal(value)
evaluate_to_f64_lazy_literal(value) ==
  IF value.t = "number" THEN Some(ToF64(value.n)) ELSE None

\* the comparison of two floats of the columnar pass
CompareF64(value, op, literal) ==
  CASE op = "Eq"  -> value = literal
    [] op = "Neq" -> value # literal
    [] op = "Lt"  -> value < literal
    [] op = "Lte" -> value <= literal
    [] op = "Gt"  -> value > literal
    [] op = "Gte" -> value >= literal

\* the single pass over the (values, valid) buffers: a row is retained when
\* its value is valid and compares true with the literal
Retained(predicate, row) ==
  LET column == evaluate_to_f64_lazy(row.doc)
      literal == evaluate_to_f64_lazy_literal(predicate.literal)
  IN  /\ column # None
      /\ literal # None
      /\ CompareF64(column[1], predicate.op, literal[1])

\* the retained rows of one batch
RetainBatch(q, batch) ==
  LET Test(row) == Retained(q.predicate, row)
  IN  IF q.filter THEN SelectSeq(batch, Test) ELSE batch

\* the vectorized path reads the next batch of the scan, filters it and hands
\* on what Offset and Limit let through
VectorBatch ==
  /\ query.done
  /\ ~query.vdone
  /\ LET batch == SubSeq(query.rows, query.vpos + 1,
                         Min({query.vpos + BatchSize, Len(query.rows)}))
         kept == RetainBatch(query, batch)
         toSkip == IF query.offset = None THEN 0
                   ELSE Min({Len(kept), query.offset[1] - query.vskipped})
         rest == SubSeq(kept, toSkip + 1, Len(kept))
         room == IF query.limit = None THEN Len(rest)
                 ELSE Min({Len(rest), query.limit[1] - Len(query.vout)})
         vout == query.vout \o SubSeq(rest, 1, room)
     IN  query' = [query EXCEPT
                     !.vpos = @ + Len(batch),
                     !.vskipped = @ + toSkip,
                     !.vout = vout,
                     !.vdone = \/ query.vpos + Len(batch) >= Len(query.rows)
                               \/ (query.limit # None /\ Len(vout) >= query.limit[1])]
  /\ UNCHANGED <<config, store, clock, nextId, locals, hist, dbase, sources, given, yielded, tables, segment>>

\* a plan Limit?(Offset?(Filter?(Scan))) whose predicate compares the field
\* with a numeric literal, executed by both paths; nothing else going on
InitVector ==
  /\ memtable_threshold = 1
  /\ jstable_threshold = 1
  /\ InitCollection
  /\ ~Logging
  /\ collections = EmptyMap
  /\ dirs = {}
  /\ sources = <<>>
  /\ given = <<>>
  /\ yielded = <<>>
  /\ tables = <<>>
  /\ segment = NoSegment
  /\ query \in {[started |-> TRUE, rows |-> r, pos |-> 0, pulls |-> 0,
                 limit |-> l, count |-> 0, offset |-> o, skipped |-> 0,
                 out |-> <<>>, done |-> FALSE, filter |-> f, predicate |-> p,
                 vpos |-> 0, vskipped |-> 0, vout |-> <<>>, vdone |-> FALSE] :
                   r \in ScanRows,
                   f \in BOOLEAN,
                   p \in Predicates({VNumber(i) : i \in Numbers}),
                   l \in {None} \cup {Some(n) : n \in 0..MaxFilterRows},
                   o \in {None} \cup {Some(m) : m \in 0..MaxFilterRows}}

NextVector == QuerySome \/ QueryNone \/ VectorBatch

SpecVector == InitVector /\ [][NextVector]_vars

\* C31: for a plan Limit?(Offset?(Filter?(Scan))) with a predicate `field op
\* numeric literal`, the vectorized path returns the same rows in the same
\* order as the row-at-a-time operators.
C31_VectorizedEqualsRowPath ==
  (query.done /\ query.vdone) => query.vout = query.out

\* ---------------------------------------------------------------- sizes after a call
\* C33: whenever insert, update or delete has returned, the segment count is
\* strictly below the compaction threshold when that is at least 2, and at
\* most 1 when it is 1.
C33_SegmentCountBelowThreshold ==
  Returned =>
    IF jstable_threshold >= 2
    THEN jstable_count < jstable_threshold
    ELSE jstable_count <= 1

\* C33 witness: an insert that flushed and compacted has returned, with
\* threshold 2 and one segment left
C33_Witness ==
  /\ Returned
  /\ lastOp.kind = "Insert"
  /\ call.flushed
  /\ call.compacted
  /\ jstable_threshold = 2
  /\ jstable_count = 1

\* C40: whenever an operation has returned, the memtable holds at most
\* memtable_threshold entries.
C40_MemtableWithinThreshold ==
  Returned => MemTable_len(memtable) <= memtable_threshold

\* ---------------------------------------------------------------- get and scan
\* the entries scan yields for the id
ScanHits(id) == {e \in Entries(scan) : e[1] = id}

\* C34: in every reachable state in which the collection can be read, and for
\* every id, get(id) is Some(v) exactly when scan yields the entry (id, v),
\* and None exactly when scan yields no entry for the id.
C34_GetAgreesWithScan ==
  ScanEnabled =>
    \A id \in DOMAIN latest \cup {ForeignId} :
      IF get(id) = None
      THEN ScanHits(id) = {}
      ELSE ScanHits(id) = {<<id, get(id)[1]>>}

\* C34 witness: between two calls, one id whose tombstone in a newer segment
\* covers a value in an older one, and another id that get and scan both
\* find in a segment
C34_Witness ==
  /\ Returned
  /\ \E id \in DOMAIN latest :
        /\ id \notin DOMAIN memtable
        /\ get(id) = None
        /\ ScanHits(id) = {}
        /\ \E i, j \in DOMAIN disk :
              /\ i < j
              /\ FindRecord(JSTableIterator(disk[j]), id) = <<Null>>
              /\ FindRecord(JSTableIterator(disk[i]), id) \notin {<<>>, <<Null>>}
  /\ \E id \in DOMAIN latest :
        /\ id \notin DOMAIN memtable
        /\ get(id) # None
        /\ ScanHits(id) = {<<id, get(id)[1]>>}

\* ---------------------------------------------------------------- flush and compaction, seen by readers
\* the flush of the insert in progress is complete, and so is its compaction
\* if there is one
FlushComplete == pc = "compact_merge" \/ (pc = "insert_log" /\ call.flushed)

\* C35: get(id) for every id, and the whole sequence scan returns, are the same
\* right after a flush and right after a compaction as they were right before
\* the flush.
C35_FlushAndCompactInvisible ==
  FlushComplete =>
    /\ scan = call.scan
    /\ \A id \in 1..ForeignId : get(id) = call.gets[id]

\* C35 witness: a compaction has just ended; one of the merged segments held
\* the tombstone of an id whose value an older segment held, and get and scan
\* still find another document
C35_Witness ==
  /\ pc = "insert_log"
  /\ call.flushed
  /\ call.compacted
  /\ call.scan # <<>>
  /\ scan = call.scan
  /\ \E id \in DOMAIN latest :
        /\ latest[id] = Null
        /\ call.gets[id] = None
        /\ FindRecord(JSTableIterator(disk[0]), id) = <<>>
        /\ call.preCount >= 1

\* ---------------------------------------------------------------- a stop inside flush
\* how far JSTable::write has come when the process stops inside it: before
\* File::create, with .summary created but header and filter not both
\* written, or with header and filter written and some of the records
WriteProgress == {"none", "summary_created", "filter_written"}

\* the files a stop inside JSTable::write leaves behind: header and filter in
\* .summary, the first n records in .data
PartialSegment(n) ==
  [timestamp |-> clock,
   collection |-> Primary,
   filter    |-> BinaryFuse8(DOMAIN memtable),
   data      |-> SubSeq(BTreeIter(memtable), 1, n)]

\* DB::new and Collection::new on the files: the segments are counted, their
\* filters read, the log replayed
OpenOn(files) ==
  /\ disk' = files
  /\ LET n == CountJSTables(files, 0)
     IN  /\ jstable_count' = n
         /\ filters' = [p \in 1..n |-> read_filter(files[p - 1])]
  /\ logger' = Logger_new(logger)
  /\ memtable' = ReplayLog(MemTable_new, logger.file)
  /\ pc' = "idle"

\* Collection::new finds jstable-N.summary and cannot read its filter: panic
\* (the newest of the files stands for a segment whose .summary is incomplete)
OpenFails(files) ==
  /\ disk' = files
  /\ pc' = "open_failed"
  /\ UNCHANGED <<memtable, jstable_count, filters, logger>>

\* the process stops inside flush, before the log is rotated, and the
\* database is opened again on the same directory, with logging
CrashInFlush ==
  /\ Logging
  /\ pc \in {"flush_write", "flush_swap", "flush_rotate"}
  /\ nReopens < MaxReopens
  /\ \/ /\ pc = "flush_write"
        /\ \E progress \in WriteProgress :
              CASE progress = "none" -> OpenOn(disk)
                [] progress = "summary_created" ->
                     OpenFails(MapPut(disk, jstable_count, PartialSegment(0)))
                [] progress = "filter_written" ->
                     \E n \in 0..MemTable_len(memtable) :
                        OpenOn(MapPut(disk, jstable_count, PartialSegment(n)))
     \/ /\ pc # "flush_write"
        /\ OpenOn(disk)
  /\ lastOp' = [kind |-> "CrashReopen", id |-> ForeignId, doc |-> Null]
  /\ nReopens' = nReopens + 1
  /\ doc' = Null
  /\ target' = ForeignId
  /\ UNCHANGED <<config, beyond, clock, nextId, merged_table>>
  /\ UNCHANGED <<latest, pristine, call, sinceFlush, preScan, onlyInserts, nMods>>

NextCrash == Next \/ CrashInFlush

SpecCrash == Init /\ [][NextCrash]_vars

\* C36: when the process stops at any step inside flush, before the log is
\* rotated, and the database is reopened with logging, the reopen succeeds
\* and get and scan return what they returned before the flush began.
C36_StopInsideFlushIsRecovered ==
  lastOp.kind = "CrashReopen" =>
    /\ pc # "open_failed"
    /\ scan = call.scan
    /\ \A id \in 1..ForeignId : get(id) = call.gets[id]

\* ---------------------------------------------------------------- names after a restart
\* C37: reopening the database preserves the set of collection names: every
\* collection that existed before the close is listed under its original name
\* after the reopen, and no two collections share a directory.
C37_ReopenKeepsNames ==
  [][/\ ReopenStep => show_collections' = show_collections
     /\ \A n1, n2 \in show_collections' :
           n1 # n2 => collections'[n1] # collections'[n2]
    ]_vars

\* ---------------------------------------------------------------- sanitize_filename on many names
MaxNameLen == 3   \* characters of a collection name

NameChars == {" ", "a", "c", Euro}

\* every name of one to MaxNameLen characters
WideNames == UNION {[1..n -> NameChars] : n \in 1..MaxNameLen}

\* a database whose clients create collections under any of these names
NextNames == \E name \in WideNames : create_collection(name)

SpecNames == InitDB /\ [][NextNames]_vars

\* C38: two collections created under different names never share a
\* directory: sanitize_filename maps different names to different directory
\* names.
C38_SanitizeInjective ==
  \A n1, n2 \in show_collections :
    n1 # n2 => /\ sanitize_filename(n1) # sanitize_filename(n2)
               /\ collections[n1] # collections[n2]

\* ---------------------------------------------------------------- the loop inside MergedIterator::next
\* variant: a pass that finds a tombstone leaves the sources as they are
MergedIterator_pass_keepTombstone(srcs) ==
  IF PeekedIds(srcs) = {} THEN [kind |-> "None", item |-> None, sources |-> srcs]
  ELSE LET min_id  == Min(PeekedIds(srcs))
           matches == {i \in 1..Len(srcs) : srcs[i] # <<>> /\ srcs[i][1][1] = min_id}
           result  == srcs[Min(matches)][1][2]
           rest    == [i \in 1..Len(srcs) |->
                         IF i \in matches THEN Tail(srcs[i]) ELSE srcs[i]]
       IN  IF result # Null
           THEN [kind |-> "Some", item |-> Some(<<min_id, result>>), sources |-> rest]
           ELSE [kind |-> "Again", item |-> None, sources |-> srcs]

\* one pass of the loop: it returns None when no source has an entry left,
\* otherwise it takes the front entry of every source that peeks the smallest
\* id, and returns the first of them unless that one is a tombstone
MergedIterator_pass(srcs) ==
  IF PeekedIds(srcs) = {} THEN [kind |-> "None", item |-> None, sources |-> srcs]
  ELSE LET min_id  == Min(PeekedIds(srcs))
           matches == {i \in 1..Len(srcs) : srcs[i] # <<>> /\ srcs[i][1][1] = min_id}
           result  == srcs[Min(matches)][1][2]
           rest    == [i \in 1..Len(srcs) |->
                         IF i \in matches THEN Tail(srcs[i]) ELSE srcs[i]]
       IN  IF result # Null
           THEN [kind |-> "Some", item |-> Some(<<min_id, result>>), sources |-> rest]
           ELSE [kind |-> "Again", item |-> None, sources |-> rest]

\* what decides the path through the loop: an entry is a tombstone or it is not
LoopSources ==
  {BTreeIter(f) : f \in UNION {[S -> {"a", Null}] : S \in SUBSET (1..MaxKeys)}}

\* a MergedIterator over one to MaxSources sources, before its first call
InitLoop ==
  /\ memtable_threshold = 1
  /\ jstable_threshold = 1
  /\ InitCollection
  /\ ~Logging
  /\ collections = EmptyMap
  /\ dirs = {}
  /\ given \in UNION {[1..n -> LoopSources] : n \in 1..MaxSources}
  /\ sources = given
  /\ yielded = <<>>
  /\ tables = <<>>
  /\ segment = NoSegment
  /\ query = NoQuery

\* the caller asks for the next item
CallNext ==
  /\ pc = "idle"
  /\ pc' = "merge_loop"
  /\ UNCHANGED <<config, store, clock, nextId, doc, target, merged_table, hist, dbase, iter, tables, segment, query>>

\* a pass that returns an item to the caller
PassSome ==
  /\ pc = "merge_loop"
  /\ MergedIterator_pass(sources).kind = "Some"
  /\ yielded' = Append(yielded, MergedIterator_pass(sources).item[1])
  /\ sources' = MergedIterator_pass(sources).sources
  /\ pc' = "idle"
  /\ UNCHANGED <<config, store, clock, nextId, doc, target, merged_table, hist, dbase, given, tables, segment, query>>

\* a pass that met a tombstone and goes round the loop again
PassAgain ==
  /\ pc = "merge_loop"
  /\ MergedIterator_pass(sources).kind = "Again"
  /\ sources' = MergedIterator_pass(sources).sources
  /\ UNCHANGED <<config, store, clock, nextId, locals, hist, dbase, given, yielded, tables, segment, query>>

\* a pass that finds every source exhausted: the call reports end of stream
PassNone ==
  /\ pc = "merge_loop"
  /\ MergedIterator_pass(sources).kind = "None"
  /\ pc' = "merge_end"
  /\ UNCHANGED <<config, store, clock, nextId, doc, target, merged_table, hist, dbase, iter, tables, segment, query>>

NextLoop == CallNext \/ PassSome \/ PassAgain \/ PassNone

\* the caller keeps calling next() and a call that has started keeps running
SpecLoop == InitLoop /\ [][NextLoop]_vars /\ WF_vars(NextLoop)

\* the entries the sources still hold
RECURSIVE Remaining(_)
Remaining(srcs) == IF srcs = <<>> THEN 0 ELSE Len(Head(srcs)) + Remaining(Tail(srcs))

\* C39: every pass of the loop in MergedIterator::next that does not report end
\* of stream takes at least one entry out of at least one source, and a caller
\* that keeps calling next() is eventually told that the stream has ended: no
\* call before that one, nor that one, stays in the loop for ever.
C39_NextTerminates ==
  /\ [][(pc = "merge_loop" /\ pc' # "merge_end") => Remaining(sources') < Remaining(sources)]_vars
  /\ <>(pc = "merge_end")
\* a call is inside its loop after a pass over a tombstone, with at least one
\* more tombstone at the front of the sources
C39_Witness ==
  /\ pc = "merge_loop"
  /\ Remaining(sources) < Remaining(given)
  /\ yielded = <<>>
  /\ MergedIterator_pass(sources).kind = "Again"

====
